---- MODULE Spec2Model ----
(***************************************************************************)
(* Segment playback and boundary-adjustment engine of Anki-slicer:         *)
(* class PlayerUI (src/anki_slicer/player.py) and the segment handlers of  *)
(* MobileWorkflowWindow (src/anki_slicer/mobile_screens.py).               *)
(*                                                                         *)
(* Time.  The program keeps seconds as floats and milliseconds as ints.    *)
(* Every time the handlers produce is a multiple of 0.05 s (the nudge      *)
(* step), so one model unit is 0.05 s = 50 ms and int(x * 1000) is exact.  *)
(* find_subtitle_index is also called with sel_start + 1e-6, a position    *)
(* strictly between two units: positions given to it are in half units     *)
(* (Sec(t) = 2 t on the grid, Sec(t) + EPS just after it).                 *)
(*                                                                         *)
(* The state of PlayerUI is gathered in the record St; every handler is an *)
(* operator from state record to state record, composed as the code calls  *)
(* them, and an action applies one whole handler.                          *)
(***************************************************************************)
EXTENDS Integers, Sequences, FiniteSets, TLC

\* ------------------------------------------------------------- bounds
\* length of the loaded audio, in units
MediaLen == 6
\* user gestures (clicks, key presses, edits, drags) in one behaviour
MaxGestures == 5
\* find_subtitle_index on its own: entries per list, largest time
MaxEntries == 3
MaxTime == 3
\* the alignment pass on its own: entries of the original list and of the
\* translation list
MaxOrig == 3
MaxTrans == 3
\* the video bridge on its own: the monotonic clock runs to MaxClock in
\* steps of ClockStep
MaxClock == 15
ClockStep == 3
\* the selection setters on their own: the largest time given as an argument
MaxArg == 4

\* ------------------------------------------------- program constants
\* MARGIN_SEC = 1.0 s
MARGIN_SEC == 20
\* the nudge buttons move a boundary by 0.05 s
NUDGE_STEP == 1
\* nudge_segment keeps 0.1 s between the moved boundary and the other one
NUDGE_GAP == 2
\* nudge_segment re-validates the pair with 0.05 s
NUDGE_MIN == 1
\* the most extra segments an extended selection takes
MAX_EXTEND == 2
\* half units per unit
FINE == 2
\* sel_start + 1e-6 in half units
EPS == 1
\* _align_translation_entries: tolerance = 2.0 s
TOLERANCE == 40
\* _sync_video_to_audio: no command for a drift under 0.35 s
SYNC_DRIFT == 7
\* _sync_video_to_audio: 0.6 s between commands that are not forced
SYNC_SPACING == 12
\* _on_video_time: the video has caught up within 0.3 s of the target
SYNC_REACHED == 6

None == <<>>
Some(v) == <<v>>
Val(o) == o[1]

Min2(a, b) == IF a <= b THEN a ELSE b
Max2(a, b) == IF a >= b THEN a ELSE b
Sec(t) == FINE * t

Entry(a, b, t) == [start_time |-> a, end_time |-> b, text |-> t]

\* the subtitle tracks a caption selection can load: three entries with a
\* contiguous boundary and a gap, a single entry, and the empty track
Track3 == << Entry(0, 2, <<"a">>), Entry(2, 4, <<"B", ",", "a">>), Entry(5, 6, <<"b">>) >>
Track1 == << Entry(1, 3, <<"a", "b">>) >>
Tracks == { Track3, Track1, <<>> }

\* ---------------------------------------------------------------------
\* PlayerUI.find_subtitle_index: entries is the track, pos a position in
\* half units.  Scan is the for loop from index i (1-based here; the result
\* is the 0-based index of the code).
RECURSIVE Scan(_, _, _)
\* (a faulty loop, for comparison: the gap after an entry belongs to nobody)
ScanNoGap(entries, pos, i) ==
    IF i > Len(entries) THEN 0
    ELSE IF Sec(entries[i].start_time) <= pos /\ pos <= Sec(entries[i].end_time)
         THEN i - 1
         ELSE Scan(entries, pos, i + 1)
\* the loop of the code
Scan(entries, pos, i) ==
    IF i > Len(entries) THEN 0
    ELSE IF Sec(entries[i].start_time) <= pos /\ pos <= Sec(entries[i].end_time)
         THEN i - 1
         ELSE IF /\ i < Len(entries)
                 /\ Sec(entries[i].end_time) < pos
                 /\ pos < Sec(entries[i + 1].start_time)
              THEN i - 1
              ELSE Scan(entries, pos, i + 1)

\* (a faulty variant, for comparison: no rule for a position at or after
\* the last end)
find_subtitle_index_no_tail(entries, pos) ==
    IF Len(entries) = 0 THEN 0
    ELSE IF pos <= Sec(entries[1].start_time) THEN 0
    ELSE Scan(entries, pos, 1)
\* PlayerUI.find_subtitle_index
find_subtitle_index(entries, pos) ==
    IF Len(entries) = 0 THEN 0
    ELSE IF pos <= Sec(entries[1].start_time) THEN 0
    ELSE IF pos >= Sec(entries[Len(entries)].end_time) THEN Len(entries) - 1
    ELSE Scan(entries, pos, 1)


\* ---------------------------------------------------------------------
\* PlayerUI._align_translation_entries(orig_entries, trans_entries).  j and
\* the members of used count from 0 as in the code; k is the place of orig
\* in orig_entries, from 1.
\* while j < n and trans_entries[j].start_time < orig.start_time - tolerance
RECURSIVE AdvancePointer(_, _, _)
AdvancePointer(trans_entries, j, bound) ==
    IF j < Len(trans_entries) /\ trans_entries[j + 1].start_time < bound
    THEN AdvancePointer(trans_entries, j + 1, bound)
    ELSE j
AbsDiff(a, b) == IF a >= b THEN a - b ELSE b - a
\* (a faulty variant, for comparison: an entry already used is a candidate
\* again)
RECURSIVE BestCandidate_reusing(_, _, _, _, _)
BestCandidate_reusing(trans_entries, start_time, used, candidates, best) ==
    IF candidates = <<>> THEN best
    ELSE LET idx == Head(candidates)
             delta == AbsDiff(trans_entries[idx + 1].start_time, start_time)
         IN BestCandidate_reusing(trans_entries, start_time, used, Tail(candidates),
                IF delta <= TOLERANCE /\ delta < best[2] THEN << idx, delta >>
                ELSE best)
\* for idx in candidates: best is << best_idx, best_delta >>; a best_delta
\* of TOLERANCE + 1 stands for float("inf"), since a candidate is taken
\* only with delta <= tolerance
RECURSIVE BestCandidate(_, _, _, _, _)
BestCandidate(trans_entries, start_time, used, candidates, best) ==
    IF candidates = <<>> THEN best
    ELSE LET idx == Head(candidates)
             delta == AbsDiff(trans_entries[idx + 1].start_time, start_time)
         IN BestCandidate(trans_entries, start_time, used, Tail(candidates),
                IF idx \in used THEN best
                ELSE IF delta <= TOLERANCE /\ delta < best[2] THEN << idx, delta >>
                ELSE best)
\* for orig in orig_entries; picks records best_idx of each pass, in the
\* order of the passes
RECURSIVE AlignLoop(_, _, _, _, _, _, _)
AlignLoop(orig_entries_, trans_entries, k, j0, used, out, picks) ==
    IF k > Len(orig_entries_) THEN [aligned |-> out, picks |-> picks]
    ELSE LET orig == orig_entries_[k]
             n == Len(trans_entries)
             j == AdvancePointer(trans_entries, j0, orig.start_time - TOLERANCE)
             candidates == (IF j < n THEN << j >> ELSE <<>>)
                           \o (IF j - 1 >= 0 THEN << j - 1 >> ELSE <<>>)
             best_idx == BestCandidate(trans_entries, orig.start_time, used,
                                       candidates, << -1, TOLERANCE + 1 >>)[1]
         IN IF best_idx # -1
            THEN AlignLoop(orig_entries_, trans_entries, k + 1,
                           IF best_idx >= j THEN best_idx + 1 ELSE j,
                           used \cup {best_idx},
                           Append(out, Entry(orig.start_time, orig.end_time,
                                             trans_entries[best_idx + 1].text)),
                           Append(picks, best_idx))
            ELSE AlignLoop(orig_entries_, trans_entries, k + 1, j, used,
                           Append(out, Entry(orig.start_time, orig.end_time, <<>>)),
                           Append(picks, best_idx))
\* (a faulty variant, for comparison: an original entry without a match
\* gets no entry in the result)
align_matched_only(orig_entries_, trans_entries) ==
    SelectSeq(AlignLoop(orig_entries_, trans_entries, 1, 0, {}, <<>>, <<>>).aligned,
              LAMBDA e : e.text # <<>>)
align_translation_entries(orig_entries_, trans_entries) ==
    AlignLoop(orig_entries_, trans_entries, 1, 0, {}, <<>>, <<>>).aligned
\* best_idx of each pass of the loop of _align_translation_entries (-1: the
\* original entry got no translation)
align_picks(orig_entries_, trans_entries) ==
    AlignLoop(orig_entries_, trans_entries, 1, 0, {}, <<>>, <<>>).picks

\* ---------------------------------------------------------------------
\* The state of PlayerUI (attributes set in __init__ and setup_ui), of its
\* QMediaPlayer (player_pos, playing), of the position slider
\* (slider_value), of the single-shot auto_pause_timer and of the
\* SegmentAdjusterWidget (raw_*, adj_*).  Optional attributes are None or
\* Some(v).  The program runs one of two windows, surface says which:
\* "desktop" is PlayerUI, "mobile" is MobileWorkflowWindow
\* (anki_slicer/mobile_screens.py), which has its own orig_entries,
\* current_index, player and adjuster (the same variables here) and the
\* attributes auto_pause_enabled, auto_pause_armed and the enabled state of
\* its slider.  Bookkeeping that is not program state: timer_fresh says the
\* last step armed the timer, timer_deadline is the media time the pending
\* timer was armed for and timer_index the entry whose end that is when it
\* was armed for normal playback, gestures counts the user's gestures,
\* raised says a handler ended with an uncaught exception.  f_entries,
\* f_pos and f_idx are the arguments and the result of a call of
\* find_subtitle_index on its own (specification SpecFind); al_orig_entries
\* and al_trans_entries are the arguments of a call of
\* _align_translation_entries on its own, aligned its result once al_called
\* (specification SpecAlign).  The attributes of PlayerUI for the video
\* bridge keep their names without the leading underscore; video_ready is
\* youtube_view.is_ready, now is the reading of time.monotonic(), and
\* video_seek_cmd, bookkeeping, is the seek_to command the last step sent
\* to the video, if any (specification SpecVideo).
VARIABLES
    orig_entries,
    current_index,
    total_duration,
    orig_input,
    raw_start,
    raw_end,
    adj_start,
    adj_end,
    player_pos,
    playing,
    slider_value,
    slider_active,
    auto_pause_mode,
    pending_index,
    waiting_for_resume,
    is_adjusted_preview,
    timer_active,
    timer_remaining,
    timer_deadline,
    timer_fresh,
    timer_index,
    extend_active,
    extend_count,
    extend_direction,
    extend_end_index,
    extend_base_index,
    extend_sel_start,
    extend_sel_end,
    temp_combined_orig,
    search_input,
    search_matches,
    search_index,
    gestures,
    raised,
    surface,
    auto_pause_enabled,
    auto_pause_armed,
    slider_enabled,
    f_entries,
    f_pos,
    f_idx,
    al_orig_entries,
    al_trans_entries,
    aligned,
    al_called,
    al_picks,
    current_video_id,
    video_ready,
    video_sync_target,
    pending_video_seek,
    pending_video_play,
    last_video_time,
    last_video_report_ts,
    video_playing,
    last_video_sync_command_at,
    video_syncing,
    now,
    video_seek_cmd,
    video_play_cmd,
    tmp_wav,
    video_duration_ms,
    slider_max,
    time_label,
    forward_btn_text,
    bounds_args,
    trans_entries,
    trans_overrides,
    trans_editor,
    temp_combined_trans,
    card_created_for_current_segment,
    added_note,
    search_match_sources,
    match_text,
    match_term,
    match_found

vars == << orig_entries, current_index, total_duration, orig_input, raw_start, raw_end, adj_start, adj_end, player_pos, playing, slider_value, slider_active, auto_pause_mode, pending_index, waiting_for_resume, is_adjusted_preview, timer_active, timer_remaining, timer_deadline, timer_fresh, timer_index, extend_active, extend_count, extend_direction, extend_end_index, extend_base_index, extend_sel_start, extend_sel_end, temp_combined_orig, search_input, search_matches, search_index, gestures, raised, surface, auto_pause_enabled, auto_pause_armed, slider_enabled, f_entries, f_pos, f_idx, al_orig_entries, al_trans_entries, aligned, al_called, al_picks, current_video_id, video_ready, video_sync_target, pending_video_seek, pending_video_play, last_video_time, last_video_report_ts, video_playing, last_video_sync_command_at, video_syncing, now, video_seek_cmd, video_play_cmd, tmp_wav, video_duration_ms, slider_max, time_label, forward_btn_text, bounds_args, trans_entries, trans_overrides, trans_editor, temp_combined_trans, card_created_for_current_segment, added_note, search_match_sources, match_text, match_term, match_found >>

St ==
    [ orig_entries |-> orig_entries,
      current_index |-> current_index,
      total_duration |-> total_duration,
      orig_input |-> orig_input,
      raw_start |-> raw_start,
      raw_end |-> raw_end,
      adj_start |-> adj_start,
      adj_end |-> adj_end,
      player_pos |-> player_pos,
      playing |-> playing,
      slider_value |-> slider_value,
      slider_active |-> slider_active,
      auto_pause_mode |-> auto_pause_mode,
      pending_index |-> pending_index,
      waiting_for_resume |-> waiting_for_resume,
      is_adjusted_preview |-> is_adjusted_preview,
      timer_active |-> timer_active,
      timer_remaining |-> timer_remaining,
      timer_deadline |-> timer_deadline,
      timer_fresh |-> timer_fresh,
      timer_index |-> timer_index,
      extend_active |-> extend_active,
      extend_count |-> extend_count,
      extend_direction |-> extend_direction,
      extend_end_index |-> extend_end_index,
      extend_base_index |-> extend_base_index,
      extend_sel_start |-> extend_sel_start,
      extend_sel_end |-> extend_sel_end,
      temp_combined_orig |-> temp_combined_orig,
      search_input |-> search_input,
      search_matches |-> search_matches,
      search_index |-> search_index,
      gestures |-> gestures,
      raised |-> raised,
      surface |-> surface,
      auto_pause_enabled |-> auto_pause_enabled,
      auto_pause_armed |-> auto_pause_armed,
      slider_enabled |-> slider_enabled ]

Assign(r) ==
    /\ orig_entries' = r.orig_entries
    /\ current_index' = r.current_index
    /\ total_duration' = r.total_duration
    /\ orig_input' = r.orig_input
    /\ raw_start' = r.raw_start
    /\ raw_end' = r.raw_end
    /\ adj_start' = r.adj_start
    /\ adj_end' = r.adj_end
    /\ player_pos' = r.player_pos
    /\ playing' = r.playing
    /\ slider_value' = r.slider_value
    /\ slider_active' = r.slider_active
    /\ auto_pause_mode' = r.auto_pause_mode
    /\ pending_index' = r.pending_index
    /\ waiting_for_resume' = r.waiting_for_resume
    /\ is_adjusted_preview' = r.is_adjusted_preview
    /\ timer_active' = r.timer_active
    /\ timer_remaining' = r.timer_remaining
    /\ timer_deadline' = r.timer_deadline
    /\ timer_fresh' = r.timer_fresh
    /\ timer_index' = r.timer_index
    /\ extend_active' = r.extend_active
    /\ extend_count' = r.extend_count
    /\ extend_direction' = r.extend_direction
    /\ extend_end_index' = r.extend_end_index
    /\ extend_base_index' = r.extend_base_index
    /\ extend_sel_start' = r.extend_sel_start
    /\ extend_sel_end' = r.extend_sel_end
    /\ temp_combined_orig' = r.temp_combined_orig
    /\ search_input' = r.search_input
    /\ search_matches' = r.search_matches
    /\ search_index' = r.search_index
    /\ gestures' = r.gestures
    /\ raised' = r.raised
    /\ surface' = r.surface
    /\ auto_pause_enabled' = r.auto_pause_enabled
    /\ auto_pause_armed' = r.auto_pause_armed
    /\ slider_enabled' = r.slider_enabled

\* the variables of the calls made on their own
find_vars == << f_entries, f_pos, f_idx >>
align_vars == << al_orig_entries, al_trans_entries, aligned, al_called, al_picks >>
NoFind == f_entries = <<>> /\ f_pos = 0 /\ f_idx = 0
NoAlign ==
    al_orig_entries = <<>> /\ al_trans_entries = <<>> /\ aligned = <<>>
    /\ al_called = FALSE /\ al_picks = <<>>
\* the arguments of the last call that set the selection of the adjuster on
\* its own
bounds_vars == << bounds_args >>
NoBounds == bounds_args = <<>>
\* the text and the query of the last call of _has_search_match made on
\* its own, and its result
match_vars == << match_text, match_term, match_found >>
NoMatch == match_text = <<>> /\ match_term = <<>> /\ match_found = FALSE

\* the translation side of PlayerUI and of MobileWorkflowWindow: the parsed
\* entries, the user's overrides by index, the text in the translation
\* editor and the combined text of an extended selection; and the card
\* side of PlayerUI: whether a card was created for the segment shown, and
\* the front text of the last note handed to AnkiConnect.add_note; and the
\* sources of the search matches by index
trans_vars ==
    << trans_entries, trans_overrides, trans_editor, temp_combined_trans,
       card_created_for_current_segment, added_note, search_match_sources >>
TransSt ==
    [ trans_entries |-> trans_entries,
      trans_overrides |-> trans_overrides,
      trans_editor |-> trans_editor,
      temp_combined_trans |-> temp_combined_trans,
      card_created_for_current_segment |-> card_created_for_current_segment,
      added_note |-> added_note,
      search_match_sources |-> search_match_sources ]
AssignTrans(t) ==
    /\ trans_entries' = t.trans_entries
    /\ trans_overrides' = t.trans_overrides
    /\ trans_editor' = t.trans_editor
    /\ temp_combined_trans' = t.temp_combined_trans
    /\ card_created_for_current_segment' = t.card_created_for_current_segment
    /\ added_note' = t.added_note
    /\ search_match_sources' = t.search_match_sources
StartTrans(t) ==
    /\ trans_entries = t.trans_entries
    /\ trans_overrides = t.trans_overrides
    /\ trans_editor = t.trans_editor
    /\ temp_combined_trans = t.temp_combined_trans
    /\ card_created_for_current_segment = t.card_created_for_current_segment
    /\ added_note = t.added_note
    /\ search_match_sources = t.search_match_sources
\* a dict without keys
NoOverrides == [j \in {} |-> <<>>]
\* PlayerUI.__init__ with no translation entries
TransConstructed(entries) ==
    [ trans_entries |-> entries,
      trans_overrides |-> NoOverrides,
      trans_editor |-> <<>>,
      temp_combined_trans |-> None,
      card_created_for_current_segment |-> FALSE,
      added_note |-> None,
      search_match_sources |-> NoOverrides ]
NoTrans == StartTrans(TransConstructed(<<>>))

\* the state of the video bridge
video_vars ==
    << current_video_id, video_ready, video_sync_target, pending_video_seek,
       pending_video_play, last_video_time, last_video_report_ts, video_playing,
       last_video_sync_command_at, video_syncing, now, video_seek_cmd,
       video_play_cmd, tmp_wav, video_duration_ms, slider_max, time_label,
       forward_btn_text >>
VideoSt ==
    [ current_video_id |-> current_video_id,
      video_ready |-> video_ready,
      video_sync_target |-> video_sync_target,
      pending_video_seek |-> pending_video_seek,
      pending_video_play |-> pending_video_play,
      last_video_time |-> last_video_time,
      last_video_report_ts |-> last_video_report_ts,
      video_playing |-> video_playing,
      last_video_sync_command_at |-> last_video_sync_command_at,
      video_syncing |-> video_syncing,
      now |-> now,
      video_seek_cmd |-> video_seek_cmd,
      video_play_cmd |-> video_play_cmd,
      tmp_wav |-> tmp_wav,
      video_duration_ms |-> video_duration_ms,
      slider_max |-> slider_max,
      time_label |-> time_label,
      forward_btn_text |-> forward_btn_text ]
AssignVideo(v) ==
    /\ current_video_id' = v.current_video_id
    /\ video_ready' = v.video_ready
    /\ video_sync_target' = v.video_sync_target
    /\ pending_video_seek' = v.pending_video_seek
    /\ pending_video_play' = v.pending_video_play
    /\ last_video_time' = v.last_video_time
    /\ last_video_report_ts' = v.last_video_report_ts
    /\ video_playing' = v.video_playing
    /\ last_video_sync_command_at' = v.last_video_sync_command_at
    /\ video_syncing' = v.video_syncing
    /\ now' = v.now
    /\ video_seek_cmd' = v.video_seek_cmd
    /\ video_play_cmd' = v.video_play_cmd
    /\ tmp_wav' = v.tmp_wav
    /\ video_duration_ms' = v.video_duration_ms
    /\ slider_max' = v.slider_max
    /\ time_label' = v.time_label
    /\ forward_btn_text' = v.forward_btn_text
StartVideo(v) ==
    /\ current_video_id = v.current_video_id
    /\ video_ready = v.video_ready
    /\ video_sync_target = v.video_sync_target
    /\ pending_video_seek = v.pending_video_seek
    /\ pending_video_play = v.pending_video_play
    /\ last_video_time = v.last_video_time
    /\ last_video_report_ts = v.last_video_report_ts
    /\ video_playing = v.video_playing
    /\ last_video_sync_command_at = v.last_video_sync_command_at
    /\ video_syncing = v.video_syncing
    /\ now = v.now
    /\ video_seek_cmd = v.video_seek_cmd
    /\ video_play_cmd = v.video_play_cmd
    /\ tmp_wav = v.tmp_wav
    /\ video_duration_ms = v.video_duration_ms
    /\ slider_max = v.slider_max
    /\ time_label = v.time_label
    /\ forward_btn_text = v.forward_btn_text
\* PlayerUI.__init__ with an audio file: no video is attached.  The range of
\* the transport slider and the texts of the time label and of the forward
\* button are followed for the video bridge only; a time label that was not
\* made by format_time ("00:00 / 00:00", "No audio loaded", "Streaming
\* (audio unavailable)") is None.
VideoConstructed ==
    [ current_video_id |-> FALSE,
      video_ready |-> FALSE,
      video_sync_target |-> 0,
      pending_video_seek |-> None,
      pending_video_play |-> None,
      last_video_time |-> 0,
      last_video_report_ts |-> None,
      video_playing |-> FALSE,
      last_video_sync_command_at |-> None,
      video_syncing |-> FALSE,
      now |-> 0,
      video_seek_cmd |-> None,
      video_play_cmd |-> None,
      tmp_wav |-> TRUE,
      video_duration_ms |-> 0,
      slider_max |-> 0,
      time_label |-> None,
      forward_btn_text |-> "Forward" ]
NoVideo == StartVideo(VideoConstructed)

\* a handler of PlayerUI ends in state r; without a video attached the
\* handlers leave the video bridge alone
Apply(r) ==
    /\ Assign(r)
    /\ UNCHANGED << find_vars, align_vars, video_vars, bounds_vars, trans_vars, match_vars >>

Start(r) ==
    /\ orig_entries = r.orig_entries
    /\ current_index = r.current_index
    /\ total_duration = r.total_duration
    /\ orig_input = r.orig_input
    /\ raw_start = r.raw_start
    /\ raw_end = r.raw_end
    /\ adj_start = r.adj_start
    /\ adj_end = r.adj_end
    /\ player_pos = r.player_pos
    /\ playing = r.playing
    /\ slider_value = r.slider_value
    /\ slider_active = r.slider_active
    /\ auto_pause_mode = r.auto_pause_mode
    /\ pending_index = r.pending_index
    /\ waiting_for_resume = r.waiting_for_resume
    /\ is_adjusted_preview = r.is_adjusted_preview
    /\ timer_active = r.timer_active
    /\ timer_remaining = r.timer_remaining
    /\ timer_deadline = r.timer_deadline
    /\ timer_fresh = r.timer_fresh
    /\ timer_index = r.timer_index
    /\ extend_active = r.extend_active
    /\ extend_count = r.extend_count
    /\ extend_direction = r.extend_direction
    /\ extend_end_index = r.extend_end_index
    /\ extend_base_index = r.extend_base_index
    /\ extend_sel_start = r.extend_sel_start
    /\ extend_sel_end = r.extend_sel_end
    /\ temp_combined_orig = r.temp_combined_orig
    /\ search_input = r.search_input
    /\ search_matches = r.search_matches
    /\ search_index = r.search_index
    /\ gestures = r.gestures
    /\ raised = r.raised
    /\ surface = r.surface
    /\ auto_pause_enabled = r.auto_pause_enabled
    /\ auto_pause_armed = r.auto_pause_armed
    /\ slider_enabled = r.slider_enabled

\* ---------------------------------------------------------------------
\* Python list indexing: orig_entries[i] raises IndexError outside
\* [-len, len - 1] and counts a negative i from the end.
InRange(entries, i) == i < Len(entries) /\ i >= 0 - Len(entries)
At(entries, i) == IF i >= 0 THEN entries[i + 1] ELSE entries[Len(entries) + i + 1]
Raise(s) == [s EXCEPT !.raised = TRUE]

\* str.strip() and " ".join(...) on texts kept as sequences of characters
RECURSIVE LStrip(_)
LStrip(t) == IF t # <<>> /\ Head(t) = " " THEN LStrip(Tail(t)) ELSE t
RECURSIVE RStrip(_)
RStrip(t) == IF t # <<>> /\ t[Len(t)] = " " THEN RStrip(SubSeq(t, 1, Len(t) - 1)) ELSE t
Strip(t) == RStrip(LStrip(t))
RECURSIVE JoinSpace(_)
JoinSpace(parts) ==
    IF parts = <<>> THEN <<>>
    ELSE IF Len(parts) = 1 THEN parts[1]
    ELSE parts[1] \o <<" ">> \o JoinSpace(Tail(parts))
RECURSIVE NonEmptyStripped(_, _, _)
NonEmptyStripped(entries, i, j) ==
    IF i > j THEN <<>>
    ELSE (IF At(entries, i).text # <<>> THEN << Strip(At(entries, i).text) >> ELSE <<>>)
         \o NonEmptyStripped(entries, i + 1, j)
CombinedOrig(entries, i, j) == Strip(JoinSpace(NonEmptyStripped(entries, i, j)))

\* ---------------------------------------------------------------------
\* QMediaPlayer and the slots connected to its signals.
\* update_slider (positionChanged): the slider follows the position unless
\* the user holds it.
update_slider(s, pos) ==
    IF s.slider_active THEN s
    ELSE [s EXCEPT !.slider_value = Max2(0, Min2(pos, s.total_duration))]
player_setPosition(s, ms) ==
    LET p == Max2(0, Min2(ms, MediaLen))
    IN update_slider([s EXCEPT !.player_pos = p], p)
player_play(s) == [s EXCEPT !.playing = TRUE]
player_pause(s) == [s EXCEPT !.playing = FALSE]

\* QTimer (single shot): stop() and start(msec)
timer_stop(s) ==
    [s EXCEPT !.timer_active = FALSE, !.timer_remaining = 0,
              !.timer_deadline = 0, !.timer_fresh = FALSE, !.timer_index = None]
timer_start(s, msec, deadline, idx) ==
    [s EXCEPT !.timer_active = TRUE, !.timer_remaining = msec,
              !.timer_deadline = deadline, !.timer_fresh = TRUE, !.timer_index = idx]
\* (a faulty variant, for comparison: the delay is the whole length of the
\* current entry, not what is left of it)
timer_start_fixed(s, end_time) ==
    timer_start(s, Max2(0, end_time - At(s.orig_entries, s.current_index).start_time),
                end_time, IF s.extend_active THEN None ELSE Some(s.current_index))
\* remaining_ms = max(0, int(end_time * 1000 - self.player.position()))
\* self.auto_pause_timer.start(remaining_ms)
timer_start_remaining(s, end_time) ==
    timer_start(s, Max2(0, end_time - s.player_pos), end_time,
                IF s.extend_active THEN None ELSE Some(s.current_index))

\* ---------------------------------------------------------------------
\* SegmentAdjusterWidget.set_bounds_and_selection of
\* anki_slicer/segment_adjuster.py: clamp the selection into the raw
\* window, swap if inverted, grow the end to the minimum length, then move
\* the start back if the window is too short at the edge.
ADJUSTER_MIN_LEN == 1
set_bounds_and_selection(s, rs, re, ss, se) ==
    LET Store(a, b) ==
            [s EXCEPT !.raw_start = rs, !.raw_end = re, !.adj_start = a, !.adj_end = b]
        ShrinkStart(a, b) ==
            Store(IF b - a < ADJUSTER_MIN_LEN THEN Max2(rs, b - ADJUSTER_MIN_LEN) ELSE a, b)
        GrowEnd(a, b) ==
            ShrinkStart(a, IF b - a < ADJUSTER_MIN_LEN THEN Min2(a + ADJUSTER_MIN_LEN, re) ELSE b)
        Order(c1, c2) == GrowEnd(Min2(c1, c2), Max2(c1, c2))
    IN Order(Max2(rs, Min2(ss, re)), Max2(rs, Min2(se, re)))

\* SegmentAdjusterWidget.set_segment of the widget kept in
\* src/SegmentAdjusterWidget.py, whose window is the whole audio
\* (duration_sec) and whose min_len is 0.2 s.
SEGMENT_MIN_LEN == 4
\* (a faulty variant, for comparison: a selection that is too short is grown
\* from the start the widget had, not from the new one)
set_segment_from_previous(s, start_sec, end_sec) ==
    LET c1 == Max2(0, Min2(start_sec, s.total_duration))
        c2 == Max2(0, Min2(end_sec, s.total_duration))
        a == Min2(c1, c2)
        b == Max2(c1, c2)
        b1 == IF b - a < SEGMENT_MIN_LEN
              THEN Min2(s.adj_start + SEGMENT_MIN_LEN, s.total_duration) ELSE b
        a1 == IF b - a < SEGMENT_MIN_LEN /\ b1 - a < SEGMENT_MIN_LEN
              THEN Max2(0, b1 - SEGMENT_MIN_LEN) ELSE a
    IN [s EXCEPT !.adj_start = a1, !.adj_end = b1]
set_segment(s, start_sec, end_sec) ==
    LET c1 == Max2(0, Min2(start_sec, s.total_duration))
        c2 == Max2(0, Min2(end_sec, s.total_duration))
        a == Min2(c1, c2)
        b == Max2(c1, c2)
        b1 == IF b - a < SEGMENT_MIN_LEN
              THEN Min2(a + SEGMENT_MIN_LEN, s.total_duration) ELSE b
        a1 == IF b - a < SEGMENT_MIN_LEN /\ b1 - a < SEGMENT_MIN_LEN
              THEN Max2(0, b1 - SEGMENT_MIN_LEN) ELSE a
    IN [s EXCEPT !.adj_start = a1, !.adj_end = b1]

ExtendShown(s) ==
    /\ s.extend_active
    /\ s.extend_end_index # None
    /\ Val(s.extend_end_index) < Len(s.orig_entries)

\* PlayerUI.show_current_segment_in_adjuster
show_current_segment_in_adjuster(s) ==
    IF s.orig_entries = <<>> \/ s.current_index >= Len(s.orig_entries)
    THEN set_bounds_and_selection(s, 0, 0, 0, 0)
    ELSE LET entry == At(s.orig_entries, s.current_index)
             base_idx == IF s.extend_base_index # None
                         THEN Val(s.extend_base_index) ELSE s.current_index
             sel_start == IF ExtendShown(s)
                          THEN (IF s.extend_sel_start # None THEN Val(s.extend_sel_start)
                                ELSE At(s.orig_entries, base_idx).start_time)
                          ELSE entry.start_time
             sel_end == IF ExtendShown(s)
                        THEN (IF s.extend_sel_end # None THEN Val(s.extend_sel_end)
                              ELSE At(s.orig_entries, Val(s.extend_end_index)).end_time)
                        ELSE entry.end_time
             rs == Max2(0, sel_start - MARGIN_SEC)
             re0 == sel_end + MARGIN_SEC
             re == IF s.total_duration > 0 THEN Min2(re0, s.total_duration) ELSE re0
         IN set_bounds_and_selection(s, rs, re, sel_start, sel_end)

\* PlayerUI.update_subtitle_display: the original-text editor shows the
\* current entry, or the combined text of an extended selection, and the
\* adjuster is reset
update_subtitle_display(s) ==
    IF s.orig_entries = <<>> THEN [s EXCEPT !.orig_input = <<>>]
    ELSE IF ~InRange(s.orig_entries, s.current_index) THEN Raise(s)
    ELSE LET base_idx == IF s.extend_base_index # None
                         THEN Val(s.extend_base_index) ELSE s.current_index
             show_orig == IF ExtendShown(s)
                          THEN CombinedOrig(s.orig_entries, base_idx, Val(s.extend_end_index))
                          ELSE At(s.orig_entries, s.current_index).text
         IN show_current_segment_in_adjuster([s EXCEPT !.orig_input = show_orig])

\* PlayerUI.save_current_edits: outside extended mode the editor text is
\* written into the current entry; an IndexError is swallowed
save_current_edits(s) ==
    IF (~s.extend_active) /\ InRange(s.orig_entries, s.current_index)
    THEN LET k == IF s.current_index >= 0 THEN s.current_index + 1
                  ELSE Len(s.orig_entries) + s.current_index + 1
         IN [s EXCEPT !.orig_entries[k].text = s.orig_input]
    ELSE s

\* PlayerUI.cancel_extend_selection
cancel_extend_selection(s) ==
    LET Redraw(s2) == IF s2.raised THEN s2 ELSE show_current_segment_in_adjuster(s2)
    IN IF ~s.extend_active THEN s
       ELSE Redraw(update_subtitle_display(
                [s EXCEPT !.extend_active = FALSE, !.extend_count = 0,
                          !.extend_direction = 1, !.extend_end_index = None,
                          !.extend_base_index = None, !.extend_sel_start = None,
                          !.extend_sel_end = None, !.temp_combined_orig = None]))

\* ---------------------------------------------------------------------
\* PlayerUI.play_adjusted_segment
play_adjusted_segment_from_position(s) ==
    LET s1 == [timer_stop(s) EXCEPT !.is_adjusted_preview = TRUE]
    IN timer_start(player_play(s1), Max2(0, s.adj_end - s.adj_start), s.adj_end, None)
play_adjusted_segment(s) ==
    LET s1 == [timer_stop(s) EXCEPT !.is_adjusted_preview = TRUE]
        s2 == player_play(player_setPosition(s1, s.adj_start))
    IN timer_start(s2, Max2(0, s.adj_end - s.adj_start), s.adj_end, None)

\* (a faulty variant, for comparison: the boundary moves without the clamps)
nudge_segment_unclamped(s, which, delta) ==
    play_adjusted_segment(
        IF which = "start" THEN [s EXCEPT !.adj_start = s.adj_start - delta]
        ELSE [s EXCEPT !.adj_end = s.adj_end + delta])
\* (a faulty variant, for comparison: a boundary moved towards the other
\* one is stopped 0.05 s from it, not 0.1 s)
nudge_segment_no_gap(s, which, delta) ==
    LET abs == IF delta < 0 THEN 0 - delta ELSE delta
        new_start == IF which = "start"
                     THEN (IF delta < 0 THEN s.adj_start + abs
                           ELSE Max2(s.raw_start, s.adj_start - abs))
                     ELSE s.adj_start
        new_end == IF which = "end"
                   THEN (IF delta < 0 THEN s.adj_end - abs
                         ELSE Min2(s.raw_end, s.adj_end + abs))
                   ELSE s.adj_end
        v_start == Max2(s.raw_start, Min2(new_start, new_end - NUDGE_MIN))
        v_end == Min2(s.raw_end, Max2(new_end, v_start + NUDGE_MIN))
    IN play_adjusted_segment([s EXCEPT !.adj_start = v_start, !.adj_end = v_end])
\* PlayerUI.nudge_segment(which, delta): delta is +NUDGE_STEP or -NUDGE_STEP
nudge_segment(s, which, delta) ==
    LET abs == IF delta < 0 THEN 0 - delta ELSE delta
        new_start == IF which = "start"
                     THEN (IF delta < 0 THEN Min2(s.adj_end - NUDGE_GAP, s.adj_start + abs)
                           ELSE Max2(s.raw_start, s.adj_start - abs))
                     ELSE s.adj_start
        new_end == IF which = "end"
                   THEN (IF delta < 0 THEN Max2(s.adj_start + NUDGE_GAP, s.adj_end - abs)
                         ELSE Min2(s.raw_end, s.adj_end + abs))
                   ELSE s.adj_end
        v_start == Max2(s.raw_start, Min2(new_start, new_end - NUDGE_MIN))
        v_end == Min2(s.raw_end, Max2(new_end, v_start + NUDGE_MIN))
    IN play_adjusted_segment([s EXCEPT !.adj_start = v_start, !.adj_end = v_end])

\* (a faulty variant, for comparison: the click that pauses a preview
\* leaves the auto-pause timer running)
eventFilter_timer_left(s) ==
    IF s.playing /\ s.is_adjusted_preview
    THEN [player_pause(s) EXCEPT !.is_adjusted_preview = FALSE]
    ELSE play_adjusted_segment(s)
\* PlayerUI.eventFilter: a mouse press on the waveform
eventFilter(s) ==
    IF s.playing /\ s.is_adjusted_preview
    THEN [player_pause(timer_stop(s)) EXCEPT !.is_adjusted_preview = FALSE]
    ELSE play_adjusted_segment(s)

\* (a faulty variant, for comparison: the poll is not held back while an
\* extended selection is active)
update_subtitles_while_extended(s) ==
    IF s.slider_active \/ s.is_adjusted_preview THEN s
    ELSE LET new_index == find_subtitle_index(s.orig_entries, Sec(s.player_pos))
         IN IF new_index # s.current_index
            THEN update_subtitle_display(
                     [save_current_edits(s) EXCEPT !.current_index = new_index])
            ELSE s
\* PlayerUI.update_subtitles: the 100 ms poll
update_subtitles(s) ==
    IF s.slider_active \/ s.is_adjusted_preview \/ s.extend_active THEN s
    ELSE LET new_index == find_subtitle_index(s.orig_entries, Sec(s.player_pos))
         IN IF new_index # s.current_index
            THEN update_subtitle_display(
                     [save_current_edits(s) EXCEPT !.current_index = new_index])
            ELSE s

\* PlayerUI._current_playback_end_time: EndTimeRaises says the indexing
\* raises IndexError
EndTimeRaises(s) ==
    (~ExtendShown(s)) /\ ~InRange(s.orig_entries, s.current_index)
current_playback_end_time(s) ==
    IF ExtendShown(s)
    THEN (IF s.extend_sel_end # None THEN Val(s.extend_sel_end)
          ELSE At(s.orig_entries, Val(s.extend_end_index)).end_time)
    ELSE At(s.orig_entries, s.current_index).end_time

\* the tail of toggle_play: play, then schedule the auto-pause if enabled
PlayAndSchedule(s) ==
    LET s1 == player_play(s)
    IN IF ~s1.auto_pause_mode THEN s1
       ELSE IF EndTimeRaises(s1) THEN Raise(s1)
       ELSE timer_start_remaining(timer_stop(s1), current_playback_end_time(s1))

\* PlayerUI.toggle_play (space bar)
toggle_play(s) ==
    LET FromStart(t) ==
            IF ~InRange(t.orig_entries, t.current_index) THEN Raise(t)
            ELSE PlayAndSchedule(player_setPosition(
                     t, At(t.orig_entries, t.current_index).start_time))
        Resume(s1) ==
            IF s1.raised THEN s1
            ELSE FromStart([s1 EXCEPT !.waiting_for_resume = FALSE])
    IN IF s.playing
       THEN show_current_segment_in_adjuster(player_pause(timer_stop(s)))
       ELSE IF s.waiting_for_resume /\ s.pending_index # None
       THEN Resume(update_subtitle_display(
                [s EXCEPT !.current_index = Val(s.pending_index),
                          !.pending_index = None]))
       ELSE IF ~s.is_adjusted_preview THEN FromStart(s)
       ELSE PlayAndSchedule(s)

\* (a faulty variant, for comparison: the end of a preview is handled like
\* the end of a segment in auto-pause mode)
auto_pause_hit_as_segment_end(s) ==
    [player_pause(s) EXCEPT !.is_adjusted_preview = FALSE,
                            !.pending_index =
                                Some(Min2(s.current_index + 1, Len(s.orig_entries) - 1)),
                            !.waiting_for_resume = TRUE]
\* PlayerUI._auto_pause_hit: the auto_pause_timer timed out
auto_pause_hit(s) ==
    LET s1 == player_pause(s)
    IN IF s1.is_adjusted_preview THEN [s1 EXCEPT !.is_adjusted_preview = FALSE]
       ELSE [s1 EXCEPT !.pending_index =
                           Some(Min2(s.current_index + 1, Len(s.orig_entries) - 1)),
                       !.waiting_for_resume = TRUE]

\* PlayerUI.toggle_mode: the mode button is checkable, a click flips it
toggle_mode(s) ==
    LET s1 == timer_stop([s EXCEPT !.auto_pause_mode = ~s.auto_pause_mode])
    IN IF s1.auto_pause_mode /\ s1.playing
       THEN LET s2 == [s1 EXCEPT !.current_index =
                          find_subtitle_index(s1.orig_entries, Sec(s1.player_pos))]
            IN IF EndTimeRaises(s2) THEN Raise(s2)
               ELSE timer_start_remaining(s2, current_playback_end_time(s2))
       ELSE s1

\* PlayerUI.jump_to_current_subtitle_and_play
jump_to_current_subtitle_and_play(s) ==
    LET Schedule(s3, end_time) ==
            IF s3.auto_pause_mode
            THEN timer_start_remaining(timer_stop(s3), end_time) ELSE s3
        Play(s2, end_time) ==
            IF s2.raised THEN s2
            ELSE Schedule(player_play([s2 EXCEPT !.waiting_for_resume = FALSE]), end_time)
        Jump(s1) ==
            IF ~InRange(s1.orig_entries, s1.current_index) THEN Raise(s1)
            ELSE Play(update_subtitle_display(player_setPosition(
                          s1, At(s1.orig_entries, s1.current_index).start_time)),
                      At(s1.orig_entries, s1.current_index).end_time)
    IN IF s.orig_entries = <<>> THEN s
       ELSE Jump(IF s.current_index >= Len(s.orig_entries)
                 THEN [s EXCEPT !.current_index = Max2(0, Len(s.orig_entries) - 1)]
                 ELSE s)

\* PlayerUI.forward_to_next
forward_to_next(s) ==
    LET Advance(s1) ==
            IF s1.raised THEN s1
            ELSE jump_to_current_subtitle_and_play(
                     [save_current_edits(s1) EXCEPT !.current_index = s1.current_index + 1])
    IN IF s.current_index = 0 /\ ~s.playing /\ s.slider_value = 0
       THEN jump_to_current_subtitle_and_play(s)
       ELSE IF s.current_index < Len(s.orig_entries) - 1
       THEN Advance(cancel_extend_selection(s))
       ELSE jump_to_current_subtitle_and_play(s)

\* PlayerUI.back_to_previous
back_to_previous(s) ==
    LET Retreat(s1) ==
            IF s1.raised THEN s1
            ELSE jump_to_current_subtitle_and_play(
                     [save_current_edits(s1) EXCEPT !.current_index = s1.current_index - 1])
    IN IF s.orig_entries = <<>> THEN s
       ELSE IF s.current_index > 0 THEN Retreat(cancel_extend_selection(s))
       ELSE jump_to_current_subtitle_and_play(s)

\* PlayerUI.forward_or_pause: the Forward / Pause button
forward_or_pause(s) ==
    IF s.playing THEN player_pause(timer_stop(s)) ELSE forward_to_next(s)

\* PlayerUI.on_slider_pressed, PlayerUI.seek (sliderMoved: the user has
\* dragged the handle to pos)
on_slider_pressed(s) == [s EXCEPT !.slider_active = TRUE]
seek(s, pos) == player_setPosition([s EXCEPT !.slider_value = pos], pos)

\* PlayerUI.on_slider_released
on_slider_released(s) ==
    LET Schedule(s4) ==
            IF s4.auto_pause_mode /\ s4.playing
            THEN IF ~InRange(s4.orig_entries, s4.current_index) THEN Raise(s4)
                 ELSE timer_start_remaining(
                          s4, At(s4.orig_entries, s4.current_index).end_time)
            ELSE s4
        Shown(s3) ==
            IF s3.raised THEN s3
            ELSE Schedule(timer_stop(show_current_segment_in_adjuster(
                              [s3 EXCEPT !.waiting_for_resume = FALSE])))
        Display(s2) == Shown(IF s2.raised THEN s2 ELSE update_subtitle_display(s2))
        Moved(c, new_index) ==
            IF c.raised THEN c
            ELSE [save_current_edits(c) EXCEPT !.current_index = new_index]
        Sought(s1, new_index) ==
            Display(IF s1.orig_entries # <<>> /\ new_index # s1.current_index
                    THEN Moved(cancel_extend_selection(s1), new_index)
                    ELSE s1)
    IN Sought(player_setPosition([s EXCEPT !.slider_active = FALSE], s.slider_value),
              find_subtitle_index(s.orig_entries, Sec(s.slider_value)))

\* PlayerUI.update_duration (durationChanged)
update_duration(s, dur) ==
    show_current_segment_in_adjuster(
        [s EXCEPT !.total_duration = dur, !.slider_value = Min2(s.slider_value, dur)])

\* ---------------------------------------------------------------------
\* (a faulty variant, for comparison: the base is the current index)
infer_index_from_current(s) == s.current_index
\* PlayerUI._infer_index_from_adjuster_start
infer_index_from_adjuster_start(s) ==
    find_subtitle_index(s.orig_entries, Max2(0, Sec(s.adj_start) + EPS))

\* PlayerUI.set_extend_count
set_extend_count(s, count0) ==
    LET base_idx == IF s.extend_base_index # None
                    THEN Val(s.extend_base_index) ELSE s.current_index
        max_extras == Min2(MAX_EXTEND, Len(s.orig_entries) - 1 - base_idx)
        Snap(s3) ==
            IF InRange(s3.orig_entries, base_idx)
            THEN player_setPosition(player_pause(s3),
                                    At(s3.orig_entries, base_idx).start_time)
            ELSE s3
        Reset(s2) ==
            IF s2.raised THEN s2
            ELSE update_subtitle_display(Snap([s2 EXCEPT !.current_index = base_idx]))
        Preview(s3) ==
            IF s3.raised THEN s3
            ELSE play_adjusted_segment(show_current_segment_in_adjuster(s3))
        Lock(s1, end_index) ==
            Preview(update_subtitle_display(
                [s1 EXCEPT
                   !.extend_end_index = Some(end_index),
                   !.extend_sel_start = Some(At(s1.orig_entries, base_idx).start_time),
                   !.extend_sel_end = Some(At(s1.orig_entries, end_index).end_time),
                   !.current_index = base_idx,
                   !.temp_combined_orig =
                       Some(CombinedOrig(s1.orig_entries, base_idx, end_index))]))
        Counted(count) ==
            IF count > 0
            THEN Lock([s EXCEPT !.extend_count = count, !.extend_active = TRUE],
                      base_idx + count)
            ELSE Reset(cancel_extend_selection(
                           [s EXCEPT !.extend_count = count, !.extend_active = FALSE]))
    IN Counted(Min2(Max2(0, Min2(MAX_EXTEND, count0)), max_extras))

\* PlayerUI.toggle_extend_selection
toggle_extend_selection(s) ==
    LET Limit(s1) ==
            Min2(MAX_EXTEND,
                 Len(s1.orig_entries) - 1
                 - (IF s1.extend_active /\ s1.extend_base_index # None
                    THEN Val(s1.extend_base_index) ELSE s1.current_index))
        Step(s2, up, max_extras) ==
            set_extend_count(
                IF up > max_extras THEN [s2 EXCEPT !.extend_direction = -1] ELSE s2,
                IF up > max_extras THEN s2.extend_count - 1
                ELSE IF up < 0 THEN 0 ELSE up)
        Cycle(s2, max_extras) == Step(s2, s2.extend_count + s2.extend_direction, max_extras)
        Anchor(s1) ==
            IF ~s1.extend_active
            THEN [s1 EXCEPT !.extend_count = 0, !.extend_direction = 1,
                            !.extend_base_index = Some(infer_index_from_adjuster_start(s1))]
            ELSE s1
        Paused(s1) ==
            IF Limit(s1) <= 0 THEN cancel_extend_selection(s1)
            ELSE Cycle(Anchor(s1), Limit(s1))
        Stopped(s0) == Paused(IF s0.playing THEN player_pause(s0) ELSE s0)
    IN Stopped([timer_stop(s) EXCEPT !.is_adjusted_preview = FALSE])

\* ---------------------------------------------------------------------
\* Search.  Texts and queries are sequences of characters over
\* { a, b, A, B, ",", " " }.
LowerChar(c) == IF c = "A" THEN "a" ELSE IF c = "B" THEN "b" ELSE c
IsWordChar(c) == c \in {"a", "b", "A", "B"}
Lower(t) == [i \in 1..Len(t) |-> LowerChar(t[i])]
\* PlayerUI._find_case_insensitive(haystack, needle) != -1
find_case_insensitive(haystack, needle) ==
    /\ haystack # <<>>
    /\ needle # <<>>
    /\ \E i \in 1..(Len(haystack) - Len(needle) + 1) :
           SubSeq(Lower(haystack), i, i + Len(needle) - 1) = Lower(needle)
\* re.sub(r"[\W_]+", " ", ...) and re.sub(r"\s+", " ", ...): every run of
\* characters that are not word characters becomes one space
RECURSIVE CollapseNonWord(_)
CollapseNonWord(t) ==
    IF t = <<>> THEN <<>>
    ELSE IF IsWordChar(Head(t)) THEN <<Head(t)>> \o CollapseNonWord(Tail(t))
    ELSE IF Len(t) > 1 /\ ~IsWordChar(t[2]) THEN CollapseNonWord(Tail(t))
    ELSE <<" ">> \o CollapseNonWord(Tail(t))
\* PlayerUI._normalize_for_search
normalize_for_search(t) == Strip(CollapseNonWord(Lower(t)))
\* str.split(" ")
RECURSIVE SplitSpace(_, _)
SplitSpace(t, cur) ==
    IF t = <<>> THEN <<cur>>
    ELSE IF Head(t) = " " THEN <<cur>> \o SplitSpace(Tail(t), <<>>)
    ELSE SplitSpace(Tail(t), Append(cur, Head(t)))
\* (a faulty variant, for comparison: only the substring test is made)
has_search_match_substring_only(text, term, norm_term) ==
    /\ text # <<>>
    /\ find_case_insensitive(text, term)
\* PlayerUI._has_search_match
has_search_match(text, term, norm_term) ==
    /\ text # <<>>
    /\ \/ find_case_insensitive(text, term)
       \/ /\ norm_term # <<>>
          /\ normalize_for_search(text) # <<>>
          /\ \E k \in DOMAIN SplitSpace(normalize_for_search(text), <<>>) :
                 SplitSpace(normalize_for_search(text), <<>>)[k] = norm_term

\* PlayerUI.run_search, the body of the loop: the sources of the match of
\* entry i (1-based here) for the stripped query term; trans is the
\* translation track
MatchSources(entries, trans, term, i) ==
    (IF has_search_match(entries[i].text, term, normalize_for_search(term))
     THEN {"orig"} ELSE {})
    \cup (IF i <= Len(trans)
             /\ has_search_match(trans[i].text, term, normalize_for_search(term))
          THEN {"trans"} ELSE {})
\* ... and the loop, from entry i on: the indices appended to search_matches
RECURSIVE MatchesFrom(_, _, _, _)
MatchesFrom(entries, trans, term, i) ==
    IF i > Len(entries) THEN <<>>
    ELSE (IF MatchSources(entries, trans, term, i) # {}
          THEN <<i - 1>> ELSE <<>>) \o MatchesFrom(entries, trans, term, i + 1)

\* (a faulty variant, for comparison: the cursor is advanced without
\* wrapping at the end of the match list)
jump_to_match_no_wrap(s) ==
    LET Shown(s2) ==
            IF s2.raised THEN s2
            ELSE show_current_segment_in_adjuster(
                     [s2 EXCEPT !.search_index = s2.search_index + 1])
        Seek(s1, idx) ==
            IF s1.raised THEN s1
            ELSE IF ~InRange(s1.orig_entries, idx) THEN Raise(s1)
            ELSE Shown(update_subtitle_display(
                           player_setPosition(s1, At(s1.orig_entries, idx).start_time)))
        Moved(c, idx) ==
            IF c.raised THEN c ELSE [save_current_edits(c) EXCEPT !.current_index = idx]
        Match(idx) ==
            Seek(IF idx # s.current_index THEN Moved(cancel_extend_selection(s), idx) ELSE s,
                 idx)
    IN IF s.search_matches = <<>> THEN s
       ELSE IF s.search_index >= Len(s.search_matches) THEN Raise(s)
       ELSE Match(s.search_matches[s.search_index + 1])

\* PlayerUI.jump_to_match
jump_to_match(s) ==
    LET Shown(s2) ==
            IF s2.raised THEN s2
            ELSE show_current_segment_in_adjuster(
                     [s2 EXCEPT !.search_index =
                         (s2.search_index + 1) % Len(s2.search_matches)])
        Seek(s1, idx) ==
            IF s1.raised THEN s1
            ELSE IF ~InRange(s1.orig_entries, idx) THEN Raise(s1)
            ELSE Shown(update_subtitle_display(
                           player_setPosition(s1, At(s1.orig_entries, idx).start_time)))
        Moved(c, idx) ==
            IF c.raised THEN c ELSE [save_current_edits(c) EXCEPT !.current_index = idx]
        Match(idx) ==
            Seek(IF idx # s.current_index THEN Moved(cancel_extend_selection(s), idx) ELSE s,
                 idx)
    IN IF s.search_matches = <<>> THEN s
       ELSE Match(s.search_matches[s.search_index + 1])

\* PlayerUI.run_search
run_search(s, trans) ==
    LET Found(found) ==
            IF found = <<>> THEN [s EXCEPT !.search_matches = <<>>]
            ELSE jump_to_match([s EXCEPT !.search_matches = found, !.search_index = 0])
        Search(term) ==
            IF term = <<>> \/ normalize_for_search(term) = <<>> THEN s
            ELSE Found(MatchesFrom(s.orig_entries, trans, term, 1))
    IN Search(Strip(s.search_input))

\* PlayerUI.on_search_button
on_search_button(s, trans) ==
    LET Searched(s1) ==
            IF s1.raised THEN s1
            ELSE IF s1.search_matches # <<>> THEN jump_to_match(s1)
            ELSE run_search(s1, trans)
    IN Searched(cancel_extend_selection(s))

\* PlayerUI.clear_search_state (search_input.textChanged)
clear_search_state(s) ==
    cancel_extend_selection([s EXCEPT !.search_matches = <<>>, !.search_index = 0])

\* PlayerUI._apply_caption_selection("orig"): another original track (or
\* none) is selected
apply_caption_selection_orig(s, entries) ==
    LET Redraw(s1) == IF s1.raised THEN s1 ELSE show_current_segment_in_adjuster(s1)
    IN Redraw(update_subtitle_display(
                  [s EXCEPT !.orig_entries = entries, !.current_index = 0]))


\* ---------------------------------------------------------------------
\* PlayerUI.__init__(mp3_path, orig_entries, ...): the attributes as the
\* constructor sets them; setup_ui ends with update_subtitle_display() and
\* the constructor then shows the first entry in the adjuster.  The audio
\* is loaded, its duration is reported later (durationChanged).
Constructed(entries) ==
    LET zero == [ orig_entries |-> entries,
                  current_index |-> 0,
                  total_duration |-> 0,
                  orig_input |-> <<>>,
                  raw_start |-> 0, raw_end |-> 0, adj_start |-> 0, adj_end |-> 0,
                  player_pos |-> 0,
                  playing |-> FALSE,
                  slider_value |-> 0,
                  slider_active |-> FALSE,
                  auto_pause_mode |-> FALSE,
                  pending_index |-> None,
                  waiting_for_resume |-> FALSE,
                  is_adjusted_preview |-> FALSE,
                  timer_active |-> FALSE, timer_remaining |-> 0,
                  timer_deadline |-> 0, timer_fresh |-> FALSE,
                  timer_index |-> None,
                  extend_active |-> FALSE,
                  extend_count |-> 0,
                  extend_direction |-> 1,
                  extend_end_index |-> None,
                  extend_base_index |-> None,
                  extend_sel_start |-> None,
                  extend_sel_end |-> None,
                  temp_combined_orig |-> None,
                  search_input |-> <<>>,
                  search_matches |-> <<>>,
                  search_index |-> 0,
                  gestures |-> 0,
                  raised |-> FALSE,
                  surface |-> "desktop",
                  auto_pause_enabled |-> FALSE,
                  auto_pause_armed |-> FALSE,
                  slider_enabled |-> FALSE ]
        shown == update_subtitle_display(zero)
    IN IF entries = <<>> THEN shown
       ELSE set_bounds_and_selection(shown,
                Max2(0, entries[1].start_time - MARGIN_SEC),
                entries[1].end_time + MARGIN_SEC,
                entries[1].start_time, entries[1].end_time)

\* ---------------------------------------------------------------------
\* MobileWorkflowWindow.  Its QMediaPlayer reports a changed position to
\* _on_position_changed and a start of playback to
\* _on_playback_state_changed.
\* MobileWorkflowWindow._arm_auto_pause
arm_auto_pause(s) == [s EXCEPT !.auto_pause_armed = s.auto_pause_enabled]
\* MobileWorkflowWindow._check_auto_pause
check_auto_pause(s, pos) ==
    IF (~s.auto_pause_enabled) \/ ~s.auto_pause_armed THEN s
    ELSE IF s.adj_end <= 0 THEN s
    ELSE IF pos >= s.adj_end
    THEN player_pause([s EXCEPT !.auto_pause_armed = FALSE])
    ELSE s
\* MobileWorkflowWindow._on_position_changed (positionChanged)
on_position_changed(s, pos) ==
    IF ~s.slider_enabled THEN s ELSE check_auto_pause(s, pos)
\* MobileWorkflowWindow._on_playback_state_changed (playbackStateChanged)
on_playback_state_changed(s) ==
    IF s.playing /\ s.auto_pause_enabled THEN [s EXCEPT !.auto_pause_armed = TRUE] ELSE s
mobile_setPosition(s, ms) ==
    LET p == Max2(0, Min2(ms, MediaLen))
    IN IF p = s.player_pos THEN s
       ELSE on_position_changed([s EXCEPT !.player_pos = p], p)
mobile_play(s) ==
    IF s.playing THEN s ELSE on_playback_state_changed(player_play(s))

\* MobileWorkflowWindow._update_segment_context(play)
update_segment_context(s, play) ==
    IF s.orig_entries = <<>> THEN [s EXCEPT !.slider_enabled = FALSE]
    ELSE IF ~InRange(s.orig_entries, s.current_index) THEN Raise(s)
    ELSE LET entry == At(s.orig_entries, s.current_index)
             s1 == set_bounds_and_selection(s,
                       Max2(0, entry.start_time - MARGIN_SEC),
                       entry.end_time + MARGIN_SEC,
                       entry.start_time, entry.end_time)
             s2 == mobile_setPosition(s1, entry.start_time)
         IN IF play THEN mobile_play(arm_auto_pause(s2)) ELSE player_pause(s2)

\* MobileWorkflowWindow.next_segment, previous_segment
next_segment(s) ==
    IF s.orig_entries = <<>> THEN s
    ELSE IF s.current_index < Len(s.orig_entries) - 1
    THEN update_segment_context([s EXCEPT !.current_index = s.current_index + 1], TRUE)
    ELSE s
previous_segment(s) ==
    IF s.orig_entries = <<>> THEN s
    ELSE IF s.current_index > 0
    THEN update_segment_context([s EXCEPT !.current_index = s.current_index - 1], TRUE)
    ELSE s

\* MobileWorkflowWindow.play_current_segment
play_current_segment(s) ==
    IF s.orig_entries = <<>> THEN s
    ELSE mobile_play(arm_auto_pause(mobile_setPosition(s, s.adj_start)))

\* (a faulty variant, for comparison: the switch leaves the armed flag as
\* it is)
on_auto_pause_toggled_enabled_only(s, enabled) ==
    [s EXCEPT !.auto_pause_enabled = enabled]
\* MobileWorkflowWindow._on_auto_pause_toggled(enabled)
on_auto_pause_toggled(s, enabled) ==
    [s EXCEPT !.auto_pause_enabled = enabled, !.auto_pause_armed = enabled]

\* MobileWorkflowWindow.eventFilter: the mouse is released on the waveform
mobile_eventFilter(s) ==
    IF s.auto_pause_enabled THEN arm_auto_pause(s) ELSE s

\* MobileWorkflowWindow._adjust_selection(side, delta): the trim buttons
ADJUST_MINIMUM == 1
adjust_selection(s, side, delta) ==
    LET start == IF side = "start"
                 THEN Max2(s.raw_start, Min2(s.adj_start + delta, s.adj_end - ADJUST_MINIMUM))
                 ELSE s.adj_start
        end == IF side = "start" THEN s.adj_end
               ELSE Min2(s.raw_end, Max2(s.adj_start + ADJUST_MINIMUM, s.adj_end + delta))
    IN arm_auto_pause(set_bounds_and_selection(s, s.raw_start, s.raw_end, start, end))

\* MobileWorkflowWindow._extend_selection: the extend button
extend_selection(s) ==
    LET start == Max2(s.raw_start, s.adj_start - NUDGE_STEP)
        end0 == Min2(s.raw_end, s.adj_end + NUDGE_STEP)
        end == IF end0 - start < ADJUST_MINIMUM
               THEN Min2(s.raw_end, start + ADJUST_MINIMUM) ELSE end0
    IN arm_auto_pause(set_bounds_and_selection(s, s.raw_start, s.raw_end, start, end))

\* MobileWorkflowWindow.__init__ followed by load_media(original_subs =
\* entries): the adjuster of a window without subtitles has had no
\* set_bounds_and_selection call (an end of 0, which _check_auto_pause
\* skips); _load_audio rewinds, pauses and enables the slider
Loaded(entries) ==
    LET fresh == [Constructed(<<>>) EXCEPT !.surface = "mobile"]
        audio == [player_pause(mobile_setPosition(
                      [fresh EXCEPT !.orig_entries = entries, !.current_index = 0], 0))
                  EXCEPT !.slider_enabled = TRUE]
    IN update_segment_context(audio, FALSE)

\* ---------------------------------------------------------------------
\* The video bridge of PlayerUI: a YouTube view slaved to the audio player.
\* youtube_view.seek_to(seconds, force=True)
seek_to(v, seconds) == [v EXCEPT !.video_seek_cmd = Some(seconds)]
\* (a faulty variant, for comparison: a request that is not forced is held
\* back only by a small drift, never by a recent command)
sync_video_to_audio_unspaced(v, seconds, force) ==
    IF ~v.current_video_id THEN v
    ELSE LET v1 == [v EXCEPT !.video_sync_target = seconds]
             predicted ==
                 v1.last_video_time
                 + (IF v1.video_playing /\ v1.last_video_report_ts # None
                    THEN Max2(0, v1.now - Val(v1.last_video_report_ts)) ELSE 0)
         IN IF ~v1.video_ready THEN [v1 EXCEPT !.pending_video_seek = Some(seconds)]
            ELSE IF (~force) /\ AbsDiff(seconds, predicted) < SYNC_DRIFT THEN v1
            ELSE seek_to([v1 EXCEPT !.video_syncing = TRUE,
                                    !.pending_video_seek = None,
                                    !.last_video_sync_command_at = Some(v1.now)],
                         seconds)
\* PlayerUI._sync_video_to_audio(seconds, force); _last_video_time is a
\* float from the constructor on, never None
sync_video_to_audio(v, seconds, force) ==
    IF ~v.current_video_id THEN v
    ELSE LET v1 == [v EXCEPT !.video_sync_target = seconds]
             predicted ==
                 v1.last_video_time
                 + (IF v1.video_playing /\ v1.last_video_report_ts # None
                    THEN Max2(0, v1.now - Val(v1.last_video_report_ts)) ELSE 0)
         IN IF ~v1.video_ready THEN [v1 EXCEPT !.pending_video_seek = Some(seconds)]
            ELSE IF (~force) /\ AbsDiff(seconds, predicted) < SYNC_DRIFT THEN v1
            ELSE IF /\ ~force
                    /\ v1.last_video_sync_command_at # None
                    /\ v1.now - Val(v1.last_video_sync_command_at) < SYNC_SPACING
                 THEN v1
            ELSE seek_to([v1 EXCEPT !.video_syncing = TRUE,
                                    !.pending_video_seek = None,
                                    !.last_video_sync_command_at = Some(v1.now)],
                         seconds)
\* youtube_view.set_playing(is_playing); the callers have checked is_ready
set_playing(v, is_playing) == [v EXCEPT !.video_play_cmd = Some(is_playing)]
\* (a faulty variant, for comparison: the buffered play/pause intent is sent
\* but stays in the buffer)
flush_pending_video_commands_keeping_play(v) ==
    IF ~v.video_ready THEN v
    ELSE LET v1 == IF v.pending_video_seek # None
                   THEN seek_to([v EXCEPT !.pending_video_seek = None,
                                          !.last_video_sync_command_at = Some(v.now)],
                                Val(v.pending_video_seek))
                   ELSE v
         IN IF v1.pending_video_play # None
            THEN set_playing(v1, Val(v1.pending_video_play))
            ELSE v1
\* PlayerUI._flush_pending_video_commands
flush_pending_video_commands(v) ==
    IF ~v.video_ready THEN v
    ELSE LET v1 == IF v.pending_video_seek # None
                   THEN seek_to([v EXCEPT !.pending_video_seek = None,
                                          !.last_video_sync_command_at = Some(v.now)],
                                Val(v.pending_video_seek))
                   ELSE v
         IN IF v1.pending_video_play # None
            THEN set_playing([v1 EXCEPT !.pending_video_play = None],
                             Val(v1.pending_video_play))
            ELSE v1
\* PlayerUI.format_time(ms): whole seconds (shown as m:ss)
SECOND == 20
format_time(ms) == ms \div SECOND
\* the time label made of a position and a duration
TimeLabel(ms, dur) == Some(<< format_time(ms), format_time(dur) >>)
\* PlayerUI._on_video_duration(seconds): what it does to the bridge, to the
\* range of the slider and to the time label ...
on_video_duration(v, seconds, slider_down) ==
    LET v1 == [v EXCEPT !.video_duration_ms = seconds]
    IN IF (~v1.tmp_wav) /\ v1.video_duration_ms # 0 /\ ~slider_down
       THEN [v1 EXCEPT !.slider_max = v1.video_duration_ms,
                       !.time_label = TimeLabel(0, v1.video_duration_ms)]
       ELSE v1
\* ... and to the rest of PlayerUI: setRange keeps the value in the range
on_video_duration_ui(s, v, seconds) ==
    IF (~v.tmp_wav) /\ seconds # 0 /\ ~s.slider_active
    THEN [s EXCEPT !.slider_value = Min2(s.slider_value, seconds)]
    ELSE s
\* (a faulty variant, for comparison: a time report also re-sends the seek
\* while the video has not reached the target)
on_video_time_reseeking(v, seconds, slider_down) ==
    LET v1 == [v EXCEPT !.last_video_time = seconds,
                        !.last_video_report_ts = Some(v.now)]
    IN IF v1.video_syncing
       THEN IF AbsDiff(seconds, v1.video_sync_target) < SYNC_REACHED
            THEN [v1 EXCEPT !.video_syncing = FALSE]
            ELSE seek_to(v1, v1.video_sync_target)
       ELSE v1
\* (a faulty variant, for comparison: a time report moves the slider and the
\* label whether an audio track is loaded or not)
on_video_time_always_shown(v, seconds, slider_down) ==
    LET v1 == [v EXCEPT !.last_video_time = seconds,
                        !.last_video_report_ts = Some(v.now)]
        v2 == IF v1.video_syncing
                 /\ AbsDiff(seconds, v1.video_sync_target) < SYNC_REACHED
              THEN [v1 EXCEPT !.video_syncing = FALSE] ELSE v1
    IN IF v2.video_duration_ms # 0
       THEN [v2 EXCEPT !.slider_max = IF slider_down THEN v2.slider_max
                                      ELSE v2.video_duration_ms,
                       !.time_label = TimeLabel(seconds, v2.video_duration_ms)]
       ELSE v2
\* PlayerUI._on_video_time(seconds): what it does to the bridge, to the
\* range of the slider and to the time label ...
on_video_time(v, seconds, slider_down) ==
    LET v1 == [v EXCEPT !.last_video_time = seconds,
                        !.last_video_report_ts = Some(v.now)]
        v2 == IF v1.video_syncing
                 /\ AbsDiff(seconds, v1.video_sync_target) < SYNC_REACHED
              THEN [v1 EXCEPT !.video_syncing = FALSE] ELSE v1
    IN IF (~v2.tmp_wav) /\ v2.video_duration_ms # 0
       THEN [v2 EXCEPT !.slider_max = IF slider_down THEN v2.slider_max
                                      ELSE v2.video_duration_ms,
                       !.time_label = TimeLabel(seconds, v2.video_duration_ms)]
       ELSE v2
\* ... and to the rest of PlayerUI: setValue keeps the value in the range
on_video_time_ui(s, v, seconds) ==
    IF (~v.tmp_wav) /\ v.video_duration_ms # 0 /\ ~s.slider_active
    THEN [s EXCEPT !.slider_value = Max2(0, Min2(seconds, v.video_duration_ms))]
    ELSE s
\* PlayerUI._on_video_state(state): 1 is playing, 2 paused, 0 ended, 3
\* buffering
on_video_state(v, state) ==
    LET v1 == [v EXCEPT !.video_playing = (state = 1)]
    IN IF v1.tmp_wav THEN v1
       ELSE IF state = 1 THEN [v1 EXCEPT !.forward_btn_text = "Pause"]
       ELSE IF state \in {0, 2} THEN [v1 EXCEPT !.forward_btn_text = "Forward"]
       ELSE v1
\* PlayerUI._update_forward_button_label
update_forward_button_label(v, is_playing) ==
    [v EXCEPT !.forward_btn_text = IF is_playing THEN "Pause" ELSE "Forward"]
\* PlayerUI._on_playback_state_changed
on_playback_state_changed_video(v, is_playing, pos) ==
    LET v0 == update_forward_button_label(v, is_playing)
    IN IF ~v0.current_video_id THEN v0
       ELSE LET v1 == IF v0.video_ready THEN set_playing(v0, is_playing)
                      ELSE [v0 EXCEPT !.pending_video_play = Some(is_playing)]
            IN IF is_playing /\ v1.tmp_wav
               THEN sync_video_to_audio(v1, pos, TRUE) ELSE v1
\* PlayerUI.update_slider, the part after the slider: the time label and
\* the request made of the video
update_slider_video(v, pos, dur) ==
    LET v1 == [v EXCEPT !.time_label = TimeLabel(pos, dur)]
    IN IF v1.current_video_id /\ v1.tmp_wav
       THEN sync_video_to_audio(v1, pos, FALSE) ELSE v1
\* PlayerUI.seek, the part after player.setPosition (whose positionChanged
\* sets the time label): the forced request made of the video
seek_video(v, pos, dur) ==
    LET v1 == [v EXCEPT !.time_label = TimeLabel(pos, dur)]
    IN IF v1.current_video_id /\ v1.tmp_wav
       THEN sync_video_to_audio(v1, pos, TRUE) ELSE v1

\* ---------------------------------------------------------------------
\* The translation side.  trans_overrides is a dict from index to text.
Without(m, i) == [j \in DOMAIN m \ {i} |-> m[j]]
With(m, i, text) == [j \in DOMAIN m \cup {i} |-> IF j = i THEN text ELSE m[j]]
\* self.trans_entries[i].text if i < len(self.trans_entries) else ""
ParsedAt(t, i) == IF i < Len(t.trans_entries) THEN At(t.trans_entries, i).text ELSE <<>>
\* "\n".join(parts)
RECURSIVE JoinLines(_)
JoinLines(parts) ==
    IF parts = <<>> THEN <<>>
    ELSE IF Len(parts) = 1 THEN parts[1]
    ELSE parts[1] \o <<"\n">> \o JoinLines(Tail(parts))
\* update_subtitle_display, extended: the override or the parsed text of
\* each index from i to j, empty ones kept
RECURSIVE TransParts(_, _, _)
TransParts(t, i, j) ==
    IF i > j THEN <<>>
    ELSE << IF i \in DOMAIN t.trans_overrides THEN t.trans_overrides[i]
            ELSE ParsedAt(t, i) >>
         \o TransParts(t, i + 1, j)
\* set_extend_count: the stripped parsed text of each index from i to j that
\* has one
RECURSIVE ParsedParts(_, _, _)
ParsedParts(t, i, j) ==
    IF i > j THEN <<>>
    ELSE (IF ParsedAt(t, i) # <<>> THEN << Strip(ParsedAt(t, i)) >> ELSE <<>>)
         \o ParsedParts(t, i + 1, j)
\* PlayerUI.update_subtitle_display, the translation shown
show_trans(s, t) ==
    IF s.orig_entries = <<>> THEN <<>>
    ELSE IF ~InRange(s.orig_entries, s.current_index) THEN t.trans_editor
    ELSE IF ExtendShown(s)
    THEN JoinLines(TransParts(t,
             IF s.extend_base_index # None THEN Val(s.extend_base_index)
             ELSE s.current_index,
             Val(s.extend_end_index)))
    ELSE IF s.current_index \in DOMAIN t.trans_overrides
    THEN t.trans_overrides[s.current_index]
    ELSE ParsedAt(t, s.current_index)
update_subtitle_display_trans(s, t) ==
    [t EXCEPT !.trans_editor = show_trans(s, t),
              !.card_created_for_current_segment = FALSE]
\* temp_combined_trans after a handler that ends in state s: it is set to
\* None where temp_combined_orig is (cancel_extend_selection), and nowhere
\* else
combined_trans_after(s, t) ==
    IF s.temp_combined_orig = None THEN None ELSE t.temp_combined_trans
\* what a handler that ends in state s does to the translation side:
\* forward_to_next and back_to_previous (cancel_extend_selection drops the
\* combined text) ...
navigate_translation(s, t) ==
    update_subtitle_display_trans(s,
        [t EXCEPT !.temp_combined_trans = combined_trans_after(s, t)])
\* ... and toggle_extend_selection (set_extend_count builds the combined
\* text from the parsed entries)
extend_translation(s, t) ==
    update_subtitle_display_trans(s,
        [t EXCEPT !.temp_combined_trans =
             IF ExtendShown(s)
             THEN Some(Strip(JoinLines(ParsedParts(t, Val(s.extend_base_index),
                                                   Val(s.extend_end_index)))))
             ELSE combined_trans_after(s, t)])
\* toggle_extend_selection from state s0: with no segment to add and extend
\* inactive cancel_extend_selection returns at once and nothing is redrawn
toggle_extend_translation(s0, s, t) ==
    IF (~s0.extend_active) /\ Len(s0.orig_entries) - 1 - s0.current_index <= 0
    THEN t ELSE extend_translation(s, t)
\* PlayerUI.on_translation_changed: the user has edited the translation and
\* _get_current_translation_markdown returns text
on_translation_changed(s, t, text) ==
    LET t1 == [t EXCEPT !.trans_editor = text,
                        !.card_created_for_current_segment = FALSE]
        parsed == ParsedAt(t1, s.current_index)
    IN IF s.extend_active THEN [t1 EXCEPT !.temp_combined_trans = Some(text)]
       ELSE IF Strip(text) = <<>> /\ Strip(parsed) # <<>> THEN t1
       ELSE IF text = parsed
       THEN [t1 EXCEPT !.trans_overrides = Without(t1.trans_overrides, s.current_index)]
       ELSE [t1 EXCEPT !.trans_overrides = With(t1.trans_overrides, s.current_index, text)]
\* MobileWorkflowWindow._current_translation_text, shown by
\* _refresh_text_labels
current_translation_text(s, t) ==
    IF s.current_index \in DOMAIN t.trans_overrides
    THEN t.trans_overrides[s.current_index]
    ELSE IF 0 <= s.current_index /\ s.current_index < Len(t.trans_entries)
    THEN t.trans_entries[s.current_index + 1].text
    ELSE <<>>
refresh_text_labels(s, t) == [t EXCEPT !.trans_editor = current_translation_text(s, t)]
\* MobileWorkflowWindow._on_preview_translation_changed: the user has
\* edited the translation of the preview screen to typed; it ends with
\* _refresh_translation_label
on_preview_translation_changed(s, t, typed) ==
    LET text == Strip(typed)
    IN refresh_text_labels(s,
           IF text # <<>>
           THEN [t EXCEPT !.trans_overrides = With(t.trans_overrides, s.current_index, text)]
           ELSE [t EXCEPT !.trans_overrides = Without(t.trans_overrides, s.current_index)])

\* PlayerUI.run_search, _search_match_sources: the sources of each matching
\* index; an empty query returns before the dict is replaced
run_search_sources(s, t) ==
    LET term == Strip(s.search_input)
        hits == { i \in 1..Len(s.orig_entries) :
                      MatchSources(s.orig_entries, t.trans_entries, term, i) # {} }
    IN IF term = <<>> \/ normalize_for_search(term) = <<>> THEN t
       ELSE [t EXCEPT !.search_match_sources =
                [j \in { i - 1 : i \in hits } |->
                     MatchSources(s.orig_entries, t.trans_entries, term, j + 1)]]
\* PlayerUI.on_search_button from state s: a search is run when there are no
\* matches yet
on_search_button_sources(s, t) ==
    LET c == cancel_extend_selection(s)
    IN IF c.raised \/ c.search_matches # <<>> THEN t ELSE run_search_sources(c, t)
\* PlayerUI.clear_search_state
clear_search_state_sources(t) == [t EXCEPT !.search_match_sources = NoOverrides]

\* (a faulty variant, for comparison: the edited text is written into the
\* current entry in extended mode as well)
on_original_changed_into_entries(s, text) ==
    LET s1 == [s EXCEPT !.orig_input = text]
    IN IF InRange(s.orig_entries, s.current_index)
       THEN [s1 EXCEPT !.orig_entries[s.current_index + 1].text = text]
       ELSE s1
\* PlayerUI.on_original_changed: the user has edited the original text to
\* text.  In extended mode the text is kept aside; outside it is written
\* into the current entry (an IndexError is swallowed)
on_original_changed(s, text) ==
    LET s1 == [s EXCEPT !.orig_input = text]
    IN IF s.extend_active THEN [s1 EXCEPT !.temp_combined_orig = Some(text)]
       ELSE save_current_edits(s1)
\* ... and its card side
original_changed_card(t) == [t EXCEPT !.card_created_for_current_segment = FALSE]

\* PlayerUI.create_anki_card.  outcome is what the collaborators do:
\* "unavailable" (Anki is not running), "error" (slicing or add_note raises,
\* caught by the handler) or "created".
CardOutcomes == {"unavailable", "error", "created"}
\* the state when the note is about to be added: edits saved, index clamped
card_gathered(s) ==
    LET s1 == save_current_edits(s)
    IN IF s1.current_index >= Len(s1.orig_entries)
       THEN [s1 EXCEPT !.current_index = Max2(0, Len(s1.orig_entries) - 1)]
       ELSE s1
\* advance_to_index
card_advance(g) ==
    IF g.extend_active /\ g.extend_end_index # None
       /\ Val(g.extend_end_index) + 1 < Len(g.orig_entries)
    THEN Some(Val(g.extend_end_index) + 1) ELSE None
\* the handler returns before the note is added
card_refused(s, t, outcome) ==
    \/ outcome = "unavailable"
    \/ t.card_created_for_current_segment
    \/ s.orig_entries = <<>>
    \/ outcome = "error"
\* (a faulty variant, for comparison: the extended selection is not
\* cancelled after the note is added)
create_anki_card_keeping_extend(s, t, outcome) ==
    LET g == card_gathered(s)
    IN IF outcome = "unavailable" \/ t.card_created_for_current_segment THEN s
       ELSE IF s.orig_entries = <<>> THEN save_current_edits(s)
       ELSE IF outcome = "error" THEN g
       ELSE IF card_advance(g) # None
       THEN [g EXCEPT !.current_index = Val(card_advance(g))]
       ELSE g
create_anki_card(s, t, outcome) ==
    LET g == card_gathered(s)
        c == cancel_extend_selection(g)
        Caught(x) == [x EXCEPT !.raised = FALSE]
    IN IF outcome = "unavailable" \/ t.card_created_for_current_segment THEN s
       ELSE IF s.orig_entries = <<>> THEN save_current_edits(s)
       ELSE IF outcome = "error" THEN g
       ELSE IF c.raised THEN Caught(c)
       ELSE IF card_advance(g) # None
       THEN Caught(jump_to_current_subtitle_and_play(
                       [c EXCEPT !.current_index = Val(card_advance(g))]))
       ELSE c
\* ... and its card side: the front of the note is the text of the original
\* editor, or the entry's text when the editor is blank
create_anki_card_card(s, t, outcome) ==
    LET g == card_gathered(s)
        c == cancel_extend_selection(g)
        front == IF Strip(g.orig_input) # <<>> THEN Strip(g.orig_input)
                 ELSE At(g.orig_entries, g.current_index).text
        t1 == [t EXCEPT !.added_note = Some(front),
                        !.card_created_for_current_segment = TRUE]
        t2 == IF g.extend_active THEN navigate_translation(c, t1) ELSE t1
    IN IF card_refused(s, t, outcome) THEN t
       ELSE IF c.raised THEN t2
       ELSE IF card_advance(g) # None
       THEN navigate_translation(create_anki_card(s, t, outcome), t2)
       ELSE [t2 EXCEPT !.card_created_for_current_segment = TRUE]

Init ==
    /\ \E entries \in Tracks :
           Start(Constructed(entries)) \/ Start(Loaded(entries))
    /\ NoFind
    /\ NoAlign
    /\ NoVideo
    /\ NoBounds
    /\ NoMatch
    /\ NoTrans

\* the state a handler starts from: the bookkeeping of the previous step is
\* cleared
Begin == [St EXCEPT !.timer_fresh = FALSE]
\* the same at the start of a handler the user triggers
User == [Begin EXCEPT !.gestures = gestures + 1]

\* One unit of time passes: a playing player advances (and stops at the end
\* of the media), a pending timer counts down.  The timer's timeout is
\* delivered by TimerFire, possibly late.
Tick ==
    /\ ~raised
    /\ surface = "desktop"
    /\ playing \/ (timer_active /\ timer_remaining > 0)
    /\ LET s == Begin
           s1 == IF s.playing /\ s.player_pos < MediaLen
                 THEN player_setPosition(s, s.player_pos + 1) ELSE s
           s2 == IF s1.playing /\ s1.player_pos >= MediaLen
                 THEN [s1 EXCEPT !.playing = FALSE] ELSE s1
       IN Apply([s2 EXCEPT !.timer_remaining = Max2(0, s.timer_remaining - 1)])

PollTick == (~raised) /\ surface = "desktop" /\ Apply(update_subtitles(Begin))

TimerFire ==
    /\ ~raised
    /\ surface = "desktop"
    /\ timer_active /\ timer_remaining = 0
    /\ Apply(auto_pause_hit(timer_stop(Begin)))

\* a gesture the user makes: within the budget, and no handler has crashed
CanAct == (~raised) /\ surface = "desktop" /\ gestures < MaxGestures
\* a gesture made with the mouse: the mouse is not holding the slider
CanClick == CanAct /\ ~slider_active

TogglePlay == CanAct /\ Apply(toggle_play(User))
ToggleMode == CanClick /\ Apply(toggle_mode(User))
ForwardOrPause == CanClick /\ Apply(forward_or_pause(User))
BackToPrevious == CanClick /\ Apply(back_to_previous(User))
SliderPressed ==
    CanClick /\ Apply(on_slider_pressed(User))
\* the positions the user drags the handle to
SliderStops == {0, 3, 5}
SliderMoved ==
    /\ CanAct
    /\ slider_active
    /\ \E v \in SliderStops :
           v <= total_duration /\ v # slider_value /\ Apply(seek(User, v))
SliderReleased ==
    CanAct /\ slider_active /\ Apply(on_slider_released(User))
DurationChanged ==
    /\ ~raised
    /\ surface = "desktop"
    /\ total_duration # MediaLen
    /\ Apply(update_duration(Begin, MediaLen))
NudgeSegment ==
    /\ CanClick
    /\ \E which \in {"start", "end"}, delta \in {NUDGE_STEP, 0 - NUDGE_STEP} :
           Apply(nudge_segment(User, which, delta))
WaveformClick == CanClick /\ Apply(eventFilter(User))
ToggleExtend ==
    CanClick /\ Apply(toggle_extend_selection(User))
SearchTerms == { <<>>, <<"A">> }
EditSearchInput ==
    /\ CanAct
    /\ \E t \in SearchTerms :
           /\ t # search_input
           /\ Apply(clear_search_state([User EXCEPT !.search_input = t]))
SearchButton == CanAct /\ Apply(on_search_button(User, trans_entries))
CaptionSelected ==
    /\ CanClick
    /\ \E entries \in Tracks :
           Apply(apply_caption_selection_orig(User, entries))

\* the mobile window: one unit of playback, and the user's taps
MobileTick ==
    /\ ~raised
    /\ surface = "mobile"
    /\ playing
    /\ LET s1 == IF player_pos < MediaLen
                 THEN mobile_setPosition(Begin, player_pos + 1) ELSE Begin
       IN Apply(IF s1.playing /\ s1.player_pos >= MediaLen
                THEN [s1 EXCEPT !.playing = FALSE] ELSE s1)
CanTap == (~raised) /\ surface = "mobile" /\ gestures < MaxGestures
MobileNextSegment == CanTap /\ Apply(next_segment(User))
MobilePreviousSegment == CanTap /\ Apply(previous_segment(User))
MobilePlayCurrentSegment == CanTap /\ Apply(play_current_segment(User))
MobileAutoPauseToggled ==
    CanTap /\ Apply(on_auto_pause_toggled(User, ~auto_pause_enabled))
MobileWaveformRelease == CanTap /\ Apply(mobile_eventFilter(User))
MobileAdjustSelection ==
    /\ CanTap
    /\ \E side \in {"start", "end"}, delta \in {NUDGE_STEP, 0 - NUDGE_STEP} :
           Apply(adjust_selection(User, side, delta))
MobileExtendSelection == CanTap /\ Apply(extend_selection(User))

Next ==
    \/ MobileTick
    \/ MobileNextSegment
    \/ MobilePreviousSegment
    \/ MobilePlayCurrentSegment
    \/ MobileAutoPauseToggled
    \/ MobileWaveformRelease
    \/ MobileAdjustSelection
    \/ MobileExtendSelection
    \/ Tick
    \/ PollTick
    \/ TimerFire
    \/ TogglePlay
    \/ ToggleMode
    \/ ForwardOrPause
    \/ BackToPrevious
    \/ SliderPressed
    \/ SliderMoved
    \/ SliderReleased
    \/ DurationChanged
    \/ NudgeSegment
    \/ WaveformClick
    \/ ToggleExtend
    \/ EditSearchInput
    \/ SearchButton
    \/ CaptionSelected

Spec == Init /\ [][Next]_vars

\* ---------------------------------------------------------------------
\* Segment boundary.
\* the four inequalities of the segment boundary, min_length being the
\* smallest minimum the surfaces use (0.05 s)
BoundaryOrdered ==
    /\ raw_start <= adj_start
    /\ adj_start < adj_end
    /\ adj_end <= raw_end
    /\ adj_end - adj_start >= NUDGE_MIN

\* C1 as stated: in every reachable state raw_start <= adj_start < adj_end
\* <= raw_end and adj_end - adj_start >= min_length.
C1_BoundaryAlways == BoundaryOrdered

\* C1 amended: the inequalities hold in every reachable state whose raw
\* window is at least min_length wide; with no subtitle the adjuster is
\* given the window (0, 0) and the selection is empty.
C1_BoundaryWhenWindowFits ==
    (raw_end - raw_start >= NUDGE_MIN) => BoundaryOrdered

\* a nudge has moved a boundary of an entry shown in a window clamped to
\* the audio
C1_Witness ==
    /\ orig_entries # <<>>
    /\ total_duration > 0
    /\ is_adjusted_preview
    /\ InRange(orig_entries, current_index)
    /\ ~extend_active
    /\ adj_end - adj_start # At(orig_entries, current_index).end_time
                              - At(orig_entries, current_index).start_time
    /\ BoundaryOrdered


\* ---------------------------------------------------------------------
\* Extend selection.
LastIndex == Len(orig_entries) - 1
\* the base entry of the extended selection: the anchored base while
\* active, the entry under the adjusted start (where a toggle anchors it)
\* while inactive
BaseEntry ==
    IF extend_active /\ extend_base_index # None THEN Val(extend_base_index)
    ELSE infer_index_from_adjuster_start(St)
TwoEntriesAfterBase == orig_entries # <<>> /\ BaseEntry + 2 <= LastIndex

\* what one toggle of the cycle 0 -> 1 -> 2 -> 1 -> 0 does to the count
CycleStep ==
    /\ ~raised'
    /\ (~extend_active) => (extend_active' /\ extend_count' = 1)
    /\ (extend_active /\ extend_count = 1 /\ extend_direction = 1)
           => (extend_active' /\ extend_count' = 2)
    /\ (extend_active /\ extend_count = 2)
           => (extend_active' /\ extend_count' = 1 /\ extend_direction' = -1)
    /\ (extend_active /\ extend_count = 1 /\ extend_direction = -1)
           => ((~extend_active') /\ extend_count' = 0)

\* C2: with at least 2 entries after the base entry, every extend toggle
\* takes the next step of the cycle: inactive -> count 1, then 2, then 1
\* again, then count 0 and inactive; the toggle after that starts over.
C2_ExtendCycle == [][(ToggleExtend /\ TwoEntriesAfterBase) => CycleStep]_vars

\* C5: while extend is active, current_index is the extend base index.
C5_FrozenOnBase ==
    extend_active => (extend_base_index # None /\ current_index = Val(extend_base_index))

\* C6: a toggle that brings the count back to 0 resets the extend state
\* completely (inactive, count 0, direction +1, base, end, locked
\* selection and combined text cleared), pauses the player at the start
\* of the former base entry and makes that entry current.
C6_FullReset ==
    [][(ToggleExtend /\ extend_active /\ extend_count > 0 /\ extend_count' = 0
        /\ extend_base_index # None /\ InRange(orig_entries, BaseEntry)
        /\ extend_sel_start = Some(At(orig_entries, BaseEntry).start_time))
       => /\ ~extend_active'
          /\ extend_direction' = 1
          /\ extend_base_index' = None
          /\ extend_end_index' = None
          /\ extend_sel_start' = None
          /\ extend_sel_end' = None
          /\ temp_combined_orig' = None
          /\ ~playing'
          /\ player_pos' = At(orig_entries, BaseEntry).start_time
          /\ current_index' = BaseEntry]_vars

\* ---------------------------------------------------------------------
\* Auto-pause timer.
\* the steps after which no earlier deadline may be pending: a pause, a
\* seek (slider move or release, forward / back navigation, search jump),
\* a mode toggle, a track switch
PauseStep == (TogglePlay \/ ForwardOrPause \/ WaveformClick) /\ playing /\ ~playing'
SeekStep ==
    \/ SliderMoved
    \/ SliderReleased
    \/ (ForwardOrPause /\ (~playing) /\ orig_entries # <<>>)
    \/ (BackToPrevious /\ orig_entries # <<>>)
    \/ (SearchButton /\ search_matches' # <<>>)

TrackSwitch == CaptionSelected /\ orig_entries' # orig_entries

\* C3: after a pause, a seek, a mode toggle or a track switch the timer
\* is stopped or was re-armed by that very step.
C3_NoStaleDeadline ==
    [][(PauseStep \/ SeekStep \/ ToggleMode \/ TrackSwitch)
       => (timer_active' => timer_fresh')]_vars

\* the timer fires in a state it was not armed for
StaleFire ==
    /\ orig_entries # <<>>
    /\ ((~is_adjusted_preview) /\ ~auto_pause_mode) \/ ~playing

\* C4: a timer firing in a state it was not armed for changes nothing.
C4_StaleFireNoOp ==
    [][(TimerFire /\ StaleFire)
       => UNCHANGED << playing, pending_index, waiting_for_resume,
                       is_adjusted_preview, current_index >>]_vars

\* the entry i whose normal playback the pending timer was armed for
ExpiredEntry ==
    IF /\ timer_active
       /\ timer_index # None
       /\ Val(timer_index) >= 0
       /\ Val(timer_index) < Len(orig_entries)
       /\ At(orig_entries, Val(timer_index)).end_time = timer_deadline
    THEN timer_index ELSE None

\* C7: in auto-pause mode, when the deadline of the normal playback of
\* entry i expires, the player is paused and the pending resume index is
\* min(i + 1, last); the next play command makes the pending index current
\* and plays from its start.
C7_NextInOrder ==
    [][/\ (TimerFire /\ auto_pause_mode /\ (~is_adjusted_preview) /\ ExpiredEntry # None)
          => /\ ~playing'
             /\ waiting_for_resume'
             /\ pending_index' = Some(Min2(Val(ExpiredEntry) + 1, LastIndex))
       /\ (TogglePlay /\ (~playing) /\ waiting_for_resume /\ pending_index # None
            /\ InRange(orig_entries, Val(pending_index)) /\ Val(pending_index) >= 0)
          => /\ current_index' = Val(pending_index)
             /\ player_pos' = Min2(MediaLen, At(orig_entries, Val(pending_index)).start_time)
             /\ playing']_vars

EntryPairs ==
    { Entry(a, b, <<>>) : a \in 0..MaxTime, b \in 0..MaxTime } \cap
    { e \in [start_time : 0..MaxTime, end_time : 0..MaxTime, text : {<<>>}] :
          e.start_time <= e.end_time }
EntryLists == UNION { [1..n -> EntryPairs] : n \in 0..MaxEntries }
Positions == 0..(Sec(MaxTime) + 1)

InitFind ==
    /\ Start(Constructed(<<>>))
    /\ f_entries \in EntryLists
    /\ f_pos = 0
    /\ f_idx = find_subtitle_index(f_entries, 0)
    /\ NoAlign
    /\ NoVideo
    /\ NoBounds
    /\ NoMatch
    /\ NoTrans

\* one call: self.find_subtitle_index(position_sec)
FindAt ==
    /\ \E pos \in Positions :
           /\ pos # f_pos
           /\ f_pos' = pos
           /\ f_idx' = find_subtitle_index(f_entries, pos)
    /\ UNCHANGED << f_entries, align_vars, video_vars, bounds_vars, trans_vars, match_vars >>
    /\ Assign(St)

NextFind == FindAt

SpecFind == InitFind /\ [][NextFind]_vars

\* position f_pos is inside entry i (1-based) or in the gap after it
Owns(i) ==
    \/ Sec(f_entries[i].start_time) <= f_pos /\ f_pos <= Sec(f_entries[i].end_time)
    \/ /\ i < Len(f_entries)
       /\ Sec(f_entries[i].end_time) < f_pos
       /\ f_pos < Sec(f_entries[i + 1].start_time)

SortedByStart ==
    \A i \in 1..(Len(f_entries) - 1) :
        f_entries[i].start_time <= f_entries[i + 1].start_time

\* C9: for a non-empty list the result is 0 at or before the first start,
\* the last index at or after the last end, and otherwise the first index
\* whose entry or trailing gap holds the position; it is always an index of
\* the list.
C9_FindIndex ==
    f_entries # <<>> =>
        /\ f_idx \in 0..(Len(f_entries) - 1)
        /\ IF f_pos <= Sec(f_entries[1].start_time) THEN f_idx = 0
           ELSE IF f_pos >= Sec(f_entries[Len(f_entries)].end_time)
                THEN f_idx = Len(f_entries) - 1
                ELSE (\E i \in 1..Len(f_entries) : Owns(i))
                     => /\ Owns(f_idx + 1)
                        /\ \A j \in 1..f_idx : ~Owns(j)

\* the position is in a gap after an entry that is not the first, and
\* the result is that entry
C9_Witness ==
    /\ Len(f_entries) = 3
    /\ SortedByStart
    /\ f_idx = 1
    /\ Sec(f_entries[2].end_time) < f_pos
    /\ f_pos < Sec(f_entries[3].start_time)

\* C10: on a list ordered by start_time, a call at a later position never
\* returns a smaller index than a call at an earlier one.
C10_Monotonic ==
    [][(FindAt /\ SortedByStart)
       => /\ (f_pos <= f_pos') => (f_idx <= f_idx')
          /\ (f_pos' <= f_pos) => (f_idx' <= f_idx)]_vars

\* two calls on a list with an overlap and a gap have returned different
\* indices
C10_Witness ==
    /\ Len(f_entries) = 3
    /\ SortedByStart
    /\ f_entries[1].end_time > f_entries[2].start_time
    /\ f_entries[2].end_time < f_entries[3].start_time
    /\ f_idx = 2
    /\ f_pos = Sec(f_entries[3].start_time)

\* ---------------------------------------------------------------------
\* _align_translation_entries on its own: any original list of up to
\* MaxOrig entries and any translation list of up to MaxTrans entries, in
\* any order, with start times that are closer than the tolerance, exactly
\* the tolerance apart and further apart.
AlignStarts == {0, 30, 50, 90}
OrigEntries == { Entry(a, a + 20, <<"o">>) : a \in AlignStarts }
TransEntries == { Entry(a, a + 10, t) : a \in AlignStarts, t \in { <<"x">>, <<"y">> } }
OrigLists == UNION { [1..n -> OrigEntries] : n \in 0..MaxOrig }
TransLists == UNION { [1..n -> TransEntries] : n \in 0..MaxTrans }

InitAlign ==
    /\ Start(Constructed(<<>>))
    /\ NoFind
    /\ NoVideo
    /\ NoBounds
    /\ NoMatch
    /\ NoTrans
    /\ al_orig_entries \in OrigLists
    /\ al_trans_entries \in TransLists
    /\ aligned = <<>>
    /\ al_called = FALSE
    /\ al_picks = <<>>

\* one call: self._align_translation_entries(orig_entries, trans_entries)
AlignCall ==
    /\ ~al_called
    /\ aligned' = align_translation_entries(al_orig_entries, al_trans_entries)
    /\ al_called' = TRUE
    /\ al_picks' = align_picks(al_orig_entries, al_trans_entries)
    /\ UNCHANGED << al_orig_entries, al_trans_entries, find_vars, video_vars,
                    bounds_vars, trans_vars, match_vars >>
    /\ Assign(St)

NextAlign == AlignCall

SpecAlign == InitAlign /\ [][NextAlign]_vars

\* C11: the result of the alignment pass has one entry per original entry,
\* the k-th with the start_time and end_time of the k-th original entry,
\* whatever the two lists are (an empty translation list included).
C11_AlignKeepsTimes ==
    al_called =>
        /\ Len(aligned) = Len(al_orig_entries)
        /\ \A k \in 1..Len(al_orig_entries) :
               /\ aligned[k].start_time = al_orig_entries[k].start_time
               /\ aligned[k].end_time = al_orig_entries[k].end_time

\* a call has matched one original entry and left the other without a
\* translation
C11_Witness ==
    /\ al_called
    /\ Len(al_orig_entries) = 2
    /\ Len(al_trans_entries) = 2
    /\ aligned[1].text = <<>>
    /\ aligned[2].text # <<>>

\* C36: in the result of the alignment pass, a non-empty text is the text
\* of the translation entry picked for that original entry, whose start
\* is within the tolerance of the original entry's start; no translation
\* entry is picked for two original entries, and the entries picked are in
\* strictly increasing order of their place in the translation list.
C36_AlignPicks ==
    al_called =>
        /\ Len(al_picks) = Len(aligned)
        /\ \A k \in 1..Len(aligned) :
               aligned[k].text # <<>>
               => /\ al_picks[k] \in 0..(Len(al_trans_entries) - 1)
                  /\ aligned[k].text = al_trans_entries[al_picks[k] + 1].text
                  /\ AbsDiff(al_trans_entries[al_picks[k] + 1].start_time,
                             al_orig_entries[k].start_time) <= TOLERANCE
        /\ \A k1, k2 \in 1..Len(al_picks) :
               (k1 < k2 /\ al_picks[k1] # -1 /\ al_picks[k2] # -1)
               => al_picks[k1] < al_picks[k2]

\* the second original entry is nearer to the first translation entry,
\* which the first original entry has taken, and gets the second one,
\* exactly the tolerance away
C36_Witness ==
    /\ al_called
    /\ Len(al_orig_entries) = 2
    /\ al_orig_entries[1].start_time = 30
    /\ al_orig_entries[2].start_time = 50
    /\ Len(al_trans_entries) = 2
    /\ al_trans_entries[1].start_time = 30
    /\ al_trans_entries[2].start_time = 50 + TOLERANCE
    /\ al_picks = << 0, 1 >>
    /\ aligned[2].text = al_trans_entries[2].text

\* ---------------------------------------------------------------------
\* Nudges of the desktop window.
NudgeDeltas == {NUDGE_STEP, 0 - NUDGE_STEP}
\* a click on a button wired to nudge_segment("start", delta)
StartNudge(delta) == CanClick /\ Apply(nudge_segment(User, "start", delta))
\* a click on a button wired to nudge_segment("end", delta)
EndNudge(delta) == CanClick /\ Apply(nudge_segment(User, "end", delta))

\* C12: a start nudge sets adj_start to adj_start + delta clamped between
\* raw_start and adj_end - min_length (0.1 s in nudge_segment) and leaves
\* adj_end alone; a negative delta never moves the start later, a positive
\* delta never moves it earlier.
C12_StartNudge ==
    [][\A delta \in NudgeDeltas :
           StartNudge(delta)
           => /\ adj_start' = Max2(raw_start, Min2(adj_start + delta, adj_end - NUDGE_GAP))
              /\ adj_end' = adj_end
              /\ (delta < 0) => (adj_start' <= adj_start)
              /\ (delta > 0) => (adj_start' >= adj_start)]_vars

\* C13: an end nudge sets adj_end to adj_end + delta clamped between
\* adj_start + min_length (0.1 s in nudge_segment) and raw_end, and leaves
\* adj_start alone.
C13_EndNudge ==
    [][\A delta \in NudgeDeltas :
           EndNudge(delta)
           => /\ adj_end' = Min2(raw_end, Max2(adj_start + NUDGE_GAP, adj_end + delta))
              /\ adj_start' = adj_start]_vars

\* the end of the second entry of the three has been nudged 0.05 s later
\* in a single gesture, the start is where the entry starts
C13_Witness ==
    /\ surface = "desktop"
    /\ orig_entries = Track3
    /\ current_index = 1
    /\ ~extend_active
    /\ is_adjusted_preview
    /\ adj_start = Track3[2].start_time
    /\ adj_end = Track3[2].end_time + NUDGE_STEP

\* ---------------------------------------------------------------------
\* C14: a pause or resume of playback, a duration-changed event, a firing
\* of the auto-pause timer or a poll tick, when it keeps the current index
\* and the extend state, leaves the adjusted selection as it was.
C14_SelectionKept ==
    [][((TogglePlay \/ DurationChanged \/ TimerFire \/ PollTick)
        /\ current_index' = current_index
        /\ extend_active' = extend_active
        /\ extend_count' = extend_count)
       => (adj_start' = adj_start /\ adj_end' = adj_end)]_vars

PreviewExpires == TimerFire /\ is_adjusted_preview

\* the step pauses the player and clears the preview flag, and leaves
\* current_index, pending_index and waiting_for_resume as they were
PausedInPlace ==
    /\ ~playing'
    /\ ~is_adjusted_preview'
    /\ current_index' = current_index
    /\ pending_index' = pending_index
    /\ waiting_for_resume' = waiting_for_resume
\* a play command given after the step stays on the current entry
PlayStays == toggle_play(St').current_index = current_index

\* C16 as stated: when the deadline of a preview expires the player is
\* paused and the preview flag cleared, with current_index, pending_index
\* and waiting_for_resume as they were, in auto-pause mode too, and the
\* play command that follows does not advance to another segment.
C16_PlayNeverAdvances ==
    [][PreviewExpires => (PausedInPlace /\ PlayStays)]_vars

\* C16 as amended: the same, but the play command that follows stays on
\* the current entry only if no resume was pending before the preview;
\* if one was, it resumes at the pending index.
C16_PreviewExpiry ==
    [][PreviewExpires
       => /\ PausedInPlace
          /\ IF waiting_for_resume /\ pending_index # None
             THEN toggle_play(St').current_index = Val(pending_index)
             ELSE PlayStays]_vars

\* in auto-pause mode the preview of a selection whose end was nudged has
\* played to that end and stopped, and no resume is pending
C16_Witness ==
    /\ surface = "desktop"
    /\ gestures = 2
    /\ auto_pause_mode
    /\ orig_entries = Track1
    /\ adj_end = Track1[1].end_time + NUDGE_STEP
    /\ player_pos = adj_end
    /\ ~playing
    /\ ~is_adjusted_preview
    /\ ~timer_active
    /\ pending_index = None
    /\ ~waiting_for_resume

\* ---------------------------------------------------------------------
\* a handler that arms the auto-pause timer for normal playback
NormalArming ==
    TogglePlay \/ ToggleMode \/ SliderReleased \/ ForwardOrPause \/ BackToPrevious

\* C17: when one of these handlers, in auto-pause mode, leaves the timer
\* armed and an extended selection active, the timer's deadline is the
\* end_time of the last entry of the extended selection.
C17_ExtendedDeadline ==
    [][(NormalArming
        /\ timer_fresh'
        /\ auto_pause_mode'
        /\ extend_active'
        /\ extend_end_index' # None)
       => /\ InRange(orig_entries', Val(extend_end_index'))
          /\ timer_deadline' = At(orig_entries', Val(extend_end_index')).end_time]_vars

\* ---------------------------------------------------------------------
\* C18: a nudge issues no seek and no play command to the player: the
\* preview of a burst of nudges starts only when the debounce countdown
\* of the last nudge expires.
C18_NoPlayDuringBurst ==
    [][NudgeSegment => (playing' = playing /\ player_pos' = player_pos)]_vars

\* ---------------------------------------------------------------------
\* what a click on the waveform does: it stops a playing preview, and in
\* any other state it starts the preview of the adjusted selection at once
ClickToggles ==
    IF playing /\ is_adjusted_preview
    THEN /\ ~playing'
         /\ ~timer_active'
         /\ ~is_adjusted_preview'
    ELSE /\ player_pos' = adj_start
         /\ playing'
         /\ is_adjusted_preview'
         /\ timer_active'
         /\ timer_deadline' = adj_end
         /\ player_pos' + timer_remaining' = adj_end
\* a second click made right after the step leaves the player paused and
\* no deadline pending
SecondClickPauses ==
    /\ ~eventFilter(St').playing
    /\ ~eventFilter(St').timer_active

\* C19 as stated: a click on the waveform toggles the preview as above, and
\* two consecutive clicks leave the player paused with no deadline pending.
C19_TwoClicksAlwaysPause ==
    [][WaveformClick => (ClickToggles /\ SecondClickPauses)]_vars

\* C19 as amended: a click on the waveform toggles the preview as above;
\* two consecutive clicks of which the first is made when no preview is
\* playing leave the player paused with no deadline pending, and two
\* clicks of which the first stops a playing preview leave the preview
\* playing again from adj_start with the deadline adj_end.
C19_WaveformClick ==
    [][WaveformClick
       => /\ ClickToggles
          /\ IF playing /\ is_adjusted_preview
             THEN /\ eventFilter(St').playing
                  /\ eventFilter(St').is_adjusted_preview
                  /\ eventFilter(St').player_pos = adj_start
                  /\ eventFilter(St').timer_active
                  /\ eventFilter(St').timer_deadline = adj_end
             ELSE SecondClickPauses]_vars

\* two clicks on the waveform of a window with one subtitle: the preview
\* was started at the start of the selection and stopped there
C19_Witness ==
    /\ surface = "desktop"
    /\ gestures = 2
    /\ orig_entries = Track1
    /\ ~auto_pause_mode
    /\ ~extend_active
    /\ adj_start = Track1[1].start_time
    /\ adj_end = Track1[1].end_time
    /\ player_pos = adj_start
    /\ ~playing
    /\ ~is_adjusted_preview
    /\ ~timer_active

\* ---------------------------------------------------------------------
\* The video bridge on its own: PlayerUI with an audio track of one
\* subtitle, its duration known, and a video attached by load_video_from_url
\* whose view is not ready yet, or PlayerUI without audio (the download
\* failed) and the same video.  The audio player reports positions from
\* AudioStops, the video reports times from VideoTimes.
AudioStops == {0, 3, 6}
VideoTimes == {0, 4, 12}
VideoDurations == {0, 30}
VideoStates == {1, 2, 3}

InitVideo ==
    /\ NoFind
    /\ NoAlign
    /\ NoBounds
    /\ NoMatch
    /\ NoTrans
    /\ \/ /\ Start(update_duration(Constructed(Track1), MediaLen))
          /\ StartVideo([VideoConstructed EXCEPT !.current_video_id = TRUE,
                                                 !.slider_max = MediaLen])
       \/ /\ Start(Constructed(Track1))
          /\ StartVideo([VideoConstructed EXCEPT !.current_video_id = TRUE,
                                                 !.tmp_wav = FALSE])

\* the bridge at the start of a handler: no command sent yet
VideoBegin == [VideoSt EXCEPT !.video_seek_cmd = None, !.video_play_cmd = None]
VideoStep(s, v) ==
    Assign(s) /\ AssignVideo(v)
    /\ UNCHANGED << find_vars, align_vars, bounds_vars, trans_vars, match_vars >>

\* time.monotonic() moves on
ClockAdvance ==
    /\ now + ClockStep <= MaxClock
    /\ VideoStep(Begin, [VideoBegin EXCEPT !.now = now + ClockStep])
\* positionChanged of the audio player: update_slider(pos), which ends
\* with _sync_video_to_audio(pos / 1000.0)
AudioPositionAt(pos) ==
    /\ tmp_wav
    /\ pos # player_pos
    /\ VideoStep(player_setPosition(Begin, pos),
                 update_slider_video(VideoBegin, pos, total_duration))
AudioPositionChanged == \E pos \in AudioStops : AudioPositionAt(pos)
\* sliderMoved: seek(pos), which ends with a forced request
VideoSeekTo(pos) ==
    /\ tmp_wav
    /\ VideoStep(seek(Begin, pos), seek_video(VideoBegin, pos, total_duration))
VideoSeek == \E pos \in AudioStops : VideoSeekTo(pos)
\* playbackStateChanged of the audio player: playback starts or stops
PlaybackStateChanged ==
    /\ tmp_wav
    /\ VideoStep([Begin EXCEPT !.playing = ~playing],
                 on_playback_state_changed_video(VideoBegin, ~playing, player_pos))
\* the view signals ready (YouTubeEmbedView._on_js_ready, connected first,
\* has set _ready): _on_video_ready
VideoReady ==
    VideoStep(Begin, flush_pending_video_commands(
                         [VideoBegin EXCEPT !.video_ready = TRUE]))
\* the view reports the duration of the video: _on_video_duration(seconds)
VideoDurationChanged ==
    /\ video_ready
    /\ \E d \in VideoDurations :
           VideoStep(on_video_duration_ui(Begin, VideoBegin, d),
                     on_video_duration(VideoBegin, d, slider_active))
\* the view reports its time: _on_video_time(seconds)
VideoTimeChanged ==
    /\ video_ready
    /\ \E t \in VideoTimes :
           VideoStep(on_video_time_ui(Begin, VideoBegin, t),
                     on_video_time(VideoBegin, t, slider_active))
\* the view reports its state: _on_video_state(state)
VideoStateChanged ==
    /\ video_ready
    /\ \E state \in VideoStates :
           VideoStep(Begin, on_video_state(VideoBegin, state))

NextVideo ==
    \/ ClockAdvance
    \/ AudioPositionChanged
    \/ VideoSeek
    \/ PlaybackStateChanged
    \/ VideoReady
    \/ VideoDurationChanged
    \/ VideoTimeChanged
    \/ VideoStateChanged

SpecVideo == InitVideo /\ [][NextVideo]_vars

\* the video time the bridge expects now: the last reported time, plus the
\* time since that report if the video was last known to be playing
Predicted ==
    last_video_time
    + (IF video_playing /\ last_video_report_ts # None
       THEN Max2(0, now - Val(last_video_report_ts)) ELSE 0)
SmallDrift(target) == AbsDiff(target, Predicted) < SYNC_DRIFT
RecentCommand ==
    /\ last_video_sync_command_at # None
    /\ now - Val(last_video_sync_command_at) < SYNC_SPACING
\* a forced request made of a ready view sends its seek command
ForcedSeeks ==
    /\ \A pos \in AudioStops :
           (VideoSeekTo(pos) /\ video_ready) => video_seek_cmd' = Some(pos)
    /\ (PlaybackStateChanged /\ video_ready /\ ~playing)
       => video_seek_cmd' = Some(player_pos)

\* C20 as stated: with the video attached and ready, a forced request
\* sends a seek command, and a request that is not forced sends one unless
\* the drift is under 0.35 s and the last command is less than 0.6 s old.
C20_SeekUnlessAllThree ==
    [][/\ ForcedSeeks
       /\ \A pos \in AudioStops :
              (AudioPositionAt(pos) /\ video_ready)
              => ((video_seek_cmd' = Some(pos))
                  <=> ~(SmallDrift(pos) /\ RecentCommand))]_vars

\* C20 as amended: with the video attached and ready, a forced request
\* sends a seek command, and a request that is not forced sends one unless
\* the drift is under 0.35 s or the last command is less than 0.6 s old.
C20_SeekUnlessEither ==
    [][/\ ForcedSeeks
       /\ \A pos \in AudioStops :
              (AudioPositionAt(pos) /\ video_ready)
              => ((video_seek_cmd' = Some(pos))
                  <=> ~(SmallDrift(pos) \/ RecentCommand))]_vars

\* the video was reported playing some time ago, and a command sent now
\* seeks it to an audio position at least 0.35 s from where it is expected
C20_Witness ==
    /\ video_ready
    /\ video_playing
    /\ last_video_report_ts # None
    /\ video_seek_cmd = Some(player_pos)
    /\ last_video_sync_command_at = Some(now)
    /\ video_syncing
    /\ now > Val(last_video_report_ts)
    /\ ~SmallDrift(player_pos)

\* ---------------------------------------------------------------------
\* C21: while the view is not ready nothing is sent to the video, and each
\* seek target and each play/pause intent of the audio side replaces the
\* buffered one; the step on which the view signals ready sends the
\* buffered seek and the buffered intent and empties both buffers, and a
\* ready signal of a view that is ready already sends nothing.
C21_BufferedUntilReady ==
    [][/\ (~video_ready') => (video_seek_cmd' = None /\ video_play_cmd' = None)
       /\ \A pos \in AudioStops :
              (~video_ready /\ (AudioPositionAt(pos) \/ VideoSeekTo(pos)))
              => pending_video_seek' = Some(pos)
       /\ (~video_ready /\ PlaybackStateChanged)
          => /\ pending_video_play' = Some(playing')
             /\ playing' => pending_video_seek' = Some(player_pos)
       /\ VideoReady
          => /\ video_seek_cmd' = pending_video_seek
             /\ video_play_cmd' = pending_video_play
             /\ pending_video_seek' = None
             /\ pending_video_play' = None
       /\ (video_ready /\ VideoReady)
          => (video_seek_cmd' = None /\ video_play_cmd' = None)]_vars

\* the view has just become ready: playback was started and stopped and the
\* audio moved on before that, and the last position and the last intent
\* are the ones sent
C21_Witness ==
    /\ video_ready
    /\ tmp_wav
    /\ player_pos = 6
    /\ ~playing
    /\ video_seek_cmd = Some(6)
    /\ video_play_cmd = Some(FALSE)
    /\ pending_video_seek = None
    /\ pending_video_play = None
    /\ ~video_syncing
    /\ video_sync_target = 6

\* ---------------------------------------------------------------------
\* a signal of the video bridge is handled
VideoEvent ==
    VideoReady \/ VideoDurationChanged \/ VideoTimeChanged \/ VideoStateChanged
\* PlayerUI apart from the value shown by the transport slider
AudioSide(s) == [s EXCEPT !.slider_value = 0, !.timer_fresh = FALSE]

\* C22: a signal of the video (ready, duration, time, state) leaves the
\* audio player's position and playing state, current_index and all other
\* state of PlayerUI outside the video bridge as they are, and a time report
\* sends no seek command to the video.
C22_OneDirectional ==
    [][/\ VideoEvent
          => /\ player_pos' = player_pos
             /\ playing' = playing
             /\ current_index' = current_index
             /\ AudioSide(St') = AudioSide(St)
       /\ VideoTimeChanged => video_seek_cmd' = None]_vars

\* the audio plays and has asked the video to seek; the video has just
\* reported a time 0.3 s or more from the target, and no command has gone
\* out in answer
C22_Witness ==
    /\ tmp_wav
    /\ playing
    /\ video_ready
    /\ video_syncing
    /\ last_video_report_ts = Some(now)
    /\ last_video_sync_command_at # None
    /\ Val(last_video_sync_command_at) < now
    /\ AbsDiff(last_video_time, video_sync_target) >= SYNC_REACHED
    /\ video_seek_cmd = None

\* ---------------------------------------------------------------------
\* the video reports its duration, its time or its state
VideoReport == VideoDurationChanged \/ VideoTimeChanged \/ VideoStateChanged

\* C23: with a local audio track loaded, a duration, time or state report
\* of the video leaves the range and the value of the transport slider, the
\* time label and the text of the forward button unchanged.
C23_TransportKeptWithAudio ==
    [][(VideoReport /\ tmp_wav)
       => /\ slider_max' = slider_max
          /\ slider_value' = slider_value
          /\ time_label' = time_label
          /\ forward_btn_text' = forward_btn_text]_vars

\* with audio loaded and paused at 0.15 s, the video has reported a duration
\* of 1.5 s, a time of 0.6 s and that it plays: the transport still shows the
\* audio
C23_Witness ==
    /\ tmp_wav
    /\ ~playing
    /\ player_pos = 3
    /\ video_duration_ms = 30
    /\ last_video_time = 12
    /\ video_playing
    /\ slider_max = MediaLen
    /\ slider_value = 3
    /\ time_label = TimeLabel(3, MediaLen)
    /\ forward_btn_text = "Forward"

\* ---------------------------------------------------------------------
\* The selection setters on their own: the adjuster of a player with one
\* subtitle and an audio of TrackLengths is given a raw window and a
\* selection, or (the widget of src/SegmentAdjusterWidget.py) a selection,
\* with every time from BoundArgs: selections inverted, outside the window
\* and shorter than the minimum length are among them.
BoundArgs == 0 .. MaxArg
TrackLengths == {2, MaxArg + 2}

InitBounds ==
    /\ \E dur \in TrackLengths :
           Start(update_duration(Constructed(Track1), dur))
    /\ NoFind
    /\ NoAlign
    /\ NoVideo
    /\ NoBounds
    /\ NoMatch
    /\ NoTrans

\* one call: set_bounds_and_selection(raw_start, raw_end, sel_start, sel_end)
SetBoundsCall ==
    /\ \E rs \in BoundArgs, re \in BoundArgs, ss \in BoundArgs, se \in BoundArgs :
           /\ bounds_args' = << rs, re, ss, se >>
           /\ Assign(set_bounds_and_selection(St, rs, re, ss, se))
    /\ UNCHANGED << find_vars, align_vars, video_vars, trans_vars, match_vars >>
\* one call: set_segment(start_sec, end_sec)
SetSegmentCall ==
    /\ \E ss \in BoundArgs, se \in BoundArgs :
           /\ bounds_args' = << ss, se >>
           /\ Assign(set_segment(St, ss, se))
    /\ UNCHANGED << find_vars, align_vars, video_vars, trans_vars, match_vars >>

NextBounds == SetBoundsCall \/ SetSegmentCall

SpecBounds == InitBounds /\ [][NextBounds]_vars

SelectsIndex ==
    /\ ~raised'
    /\ ~ToggleMode
    /\ ~extend_active
    /\ ~extend_active'
    /\ orig_entries' = orig_entries
    /\ current_index' # current_index
    /\ current_index' \in 0 .. Len(orig_entries) - 1
    /\ surface = "desktop" => total_duration' = MediaLen

\* C25: selecting subtitle i with no extended selection sets the selection
\* to (start_time[i], end_time[i]) and the raw window to
\* (max(0, start_time[i] - 1.0 s), min(end_time[i] + 1.0 s, track length)).
C25_SelectSetsWindow ==
    [][SelectsIndex
       => LET entry == orig_entries'[current_index' + 1]
          IN /\ adj_start' = entry.start_time
             /\ adj_end' = entry.end_time
             /\ raw_start' = Max2(0, entry.start_time - MARGIN_SEC)
             /\ raw_end' = Min2(entry.end_time + MARGIN_SEC, MediaLen)]_vars

\* ---------------------------------------------------------------------
\* The translation side on its own: a track of three subtitles on either
\* surface, with parsed translations for the first two (the second one
\* empty); the user steps through the track, extends the selection and
\* edits the translation to one of TransTexts.
TransTexts == { <<>>, <<" ">>, <<"a">>, <<"b">> }
TransTrack == << Entry(0, 2, <<"a">>), Entry(2, 4, <<>>) >>

InitTrans ==
    /\ \/ Start(update_duration(Constructed(Track3), MediaLen))
       \/ Start(Loaded(Track3))
    /\ NoFind
    /\ NoAlign
    /\ NoVideo
    /\ NoBounds
    /\ NoMatch
    /\ StartTrans(update_subtitle_display_trans(St, TransConstructed(TransTrack)))

TransStep(s, t) ==
    /\ Assign(s)
    /\ AssignTrans(t)
    /\ UNCHANGED << find_vars, align_vars, video_vars, bounds_vars, match_vars >>
OnDesktop == (~raised) /\ surface = "desktop"
OnMobile == (~raised) /\ surface = "mobile"
TransForward ==
    /\ OnDesktop
    /\ TransStep(forward_to_next(Begin),
                 navigate_translation(forward_to_next(Begin), TransSt))
TransBack ==
    /\ OnDesktop
    /\ TransStep(back_to_previous(Begin),
                 navigate_translation(back_to_previous(Begin), TransSt))
TransToggleExtend ==
    /\ OnDesktop
    /\ TransStep(toggle_extend_selection(Begin),
                 toggle_extend_translation(Begin, toggle_extend_selection(Begin),
                                           TransSt))
TranslationEdited(text) ==
    /\ OnDesktop
    /\ TransStep(Begin, on_translation_changed(Begin, TransSt, text))
TranslationEdit == \E text \in TransTexts : TranslationEdited(text)
MobileTransNext ==
    /\ OnMobile
    /\ TransStep(next_segment(Begin), refresh_text_labels(next_segment(Begin), TransSt))
MobileTransPrevious ==
    /\ OnMobile
    /\ TransStep(previous_segment(Begin),
                 refresh_text_labels(previous_segment(Begin), TransSt))
MobileTranslationEdited(typed) ==
    /\ OnMobile
    /\ TransStep(Begin, on_preview_translation_changed(Begin, TransSt, typed))
MobileTranslationEdit == \E typed \in TransTexts : MobileTranslationEdited(typed)

NextTrans ==
    \/ TransForward
    \/ TransBack
    \/ TransToggleExtend
    \/ TranslationEdit
    \/ MobileTransNext
    \/ MobileTransPrevious
    \/ MobileTranslationEdit

SpecTrans == InitTrans /\ [][NextTrans]_vars

\* the override map after an edit of index i to text, as the claim has it
OverridesAfterEdit(i, text) ==
    LET parsed == ParsedAt(TransSt, i)
    IN IF text = parsed \/ (Strip(text) = <<>> /\ Strip(parsed) # <<>>)
       THEN Without(trans_overrides, i)
       ELSE With(trans_overrides, i, text)

\* C26: an edit of the translation of the current index, outside extended
\* mode, leaves the override map without an entry for the index when the
\* text is the parsed one, or is empty while the parsed one is not, and maps
\* the index to the text otherwise; the other entries of the map and the
\* parsed entries stay; and moving to a subtitle shows its override if it
\* has one, its parsed text if not.
C26_OverrideMap ==
    [][/\ \A text \in TransTexts :
              ((TranslationEdited(text) \/ MobileTranslationEdited(text))
               /\ ~extend_active)
              => /\ trans_overrides' = OverridesAfterEdit(current_index, text)
                 /\ trans_entries' = trans_entries
       /\ ((TransForward \/ TransBack \/ MobileTransNext \/ MobileTransPrevious)
           /\ ~extend_active')
          => trans_editor' = IF current_index' \in DOMAIN trans_overrides'
                             THEN trans_overrides'[current_index']
                             ELSE ParsedAt(TransSt, current_index')]_vars

\* ---------------------------------------------------------------------
\* C27: while the original track is empty no handler has raised, and the
\* state is the one of no content: current_index 0, no extended selection,
\* an empty selection.
C27_EmptyTrackIsNoContent ==
    (orig_entries = <<>>)
    => /\ ~raised
       /\ current_index = 0
       /\ ~extend_active
       /\ adj_start = adj_end

\* ---------------------------------------------------------------------
\* C28: with a non-empty original track no handler has indexed the track
\* outside [0, len - 1] (Python raises IndexError past the end), whatever
\* index was stored before the track was replaced.
C28_IndexInRange == (orig_entries # <<>>) => ~raised

\* ---------------------------------------------------------------------
\* The extended selection in the desktop window: a three-entry track with
\* a two-entry translation, the user navigating, searching, dragging the
\* slider, nudging, toggling extend, editing both texts and creating cards
\* while the player plays and the timers fire.
OrigEdits == { <<>>, <<"A", "b">> }
InitExtend ==
    /\ Start(update_duration(Constructed(Track3), MediaLen))
    /\ NoFind
    /\ NoAlign
    /\ NoVideo
    /\ NoBounds
    /\ NoMatch
    /\ StartTrans(update_subtitle_display_trans(St, TransConstructed(TransTrack)))

\* the translation and card side after a handler that ended in state s by
\* update_subtitle_display, and after one that only reset the card flag
Refreshed(s) == navigate_translation(s, TransSt)
Touched == [TransSt EXCEPT !.card_created_for_current_segment = FALSE]

ExtPollTick ==
    /\ OnDesktop
    /\ LET s2 == update_subtitles(Begin)
       IN TransStep(s2, IF s2.current_index # current_index
                        THEN Refreshed(s2) ELSE TransSt)
ExtTogglePlay ==
    /\ CanAct
    /\ LET s2 == toggle_play(User)
       IN TransStep(s2, IF playing THEN Touched
                        ELSE IF waiting_for_resume /\ pending_index # None
                        THEN Refreshed(s2) ELSE TransSt)
ExtForward ==
    /\ CanClick
    /\ LET s2 == forward_or_pause(User)
       IN TransStep(s2, IF playing THEN TransSt ELSE Refreshed(s2))
ExtBack ==
    /\ CanClick
    /\ TransStep(back_to_previous(User), Refreshed(back_to_previous(User)))
ExtSliderReleased ==
    /\ CanAct
    /\ slider_active
    /\ TransStep(on_slider_released(User), Refreshed(on_slider_released(User)))
ExtNudge ==
    /\ CanClick
    /\ \E which \in {"start", "end"}, delta \in {NUDGE_STEP, 0 - NUDGE_STEP} :
           TransStep(nudge_segment(User, which, delta), Touched)
ExtToggleExtend ==
    /\ CanClick
    /\ LET s2 == toggle_extend_selection(User)
       IN TransStep(s2, toggle_extend_translation(User, s2, TransSt))
ExtEditSearchInput ==
    /\ CanAct
    /\ \E term \in SearchTerms :
           /\ term # search_input
           /\ LET s2 == clear_search_state([User EXCEPT !.search_input = term])
              IN TransStep(s2, clear_search_state_sources(
                                   IF extend_active THEN Refreshed(s2) ELSE TransSt))
ExtSearchButton ==
    /\ CanAct
    /\ LET s2 == on_search_button(User, trans_entries)
       IN TransStep(s2, on_search_button_sources(User,
                            IF extend_active \/ s2.search_matches # <<>>
                            THEN Refreshed(s2) ELSE TransSt))
OriginalEdited(text) ==
    /\ CanAct
    /\ text # orig_input
    /\ TransStep(on_original_changed(User, text), original_changed_card(TransSt))
OriginalEdit == \E text \in OrigEdits : OriginalEdited(text)
ExtTranslationEdit ==
    /\ CanAct
    /\ \E text \in TransTexts :
           /\ text # trans_editor
           /\ TransStep(User, on_translation_changed(User, TransSt, text))
CardRequested(outcome) ==
    /\ CanClick
    /\ TransStep(create_anki_card(User, TransSt, outcome),
                 create_anki_card_card(User, TransSt, outcome))
CreateCard == \E outcome \in CardOutcomes : CardRequested(outcome)

NextExtend ==
    \/ Tick
    \/ TimerFire
    \/ SliderPressed
    \/ SliderMoved
    \/ ExtPollTick
    \/ ExtTogglePlay
    \/ ExtForward
    \/ ExtBack
    \/ ExtSliderReleased
    \/ ExtNudge
    \/ ExtToggleExtend
    \/ ExtEditSearchInput
    \/ ExtSearchButton
    \/ OriginalEdit
    \/ ExtTranslationEdit
    \/ CreateCard

SpecExtend == InitExtend /\ [][NextExtend]_vars

\* the note has been added: the card was created
CardCreated == CardRequested("created") /\ ~card_refused(St, TransSt, "created")
\* a navigation, slider release or search step that moves to another segment
MovesToOtherSegment ==
    /\ ExtForward \/ ExtBack \/ ExtSliderReleased \/ ExtSearchButton
    /\ current_index' # current_index

\* C29: every successful card creation, and every forward or back
\* navigation, slider release or search jump that moves current_index to a
\* different segment, ends with extend inactive; so none of them leaves
\* extend active with a base index other than the new current segment.
C29_ExtendEndsOnMoveOrCard ==
    [][(CardCreated \/ MovesToOtherSegment)
       => /\ ~extend_active'
          /\ ~(extend_active' /\ extend_base_index' # Some(current_index'))]_vars
\* a card has been created from the extended selection of the first two
\* entries and the player has moved on to the third, extend inactive
C29_Witness ==
    /\ added_note = Some(CombinedOrig(Track3, 0, 1))
    /\ current_index = 2
    /\ ~extend_active

\* C30: in every step taken while extend is active, the steps that activate
\* and deactivate it included, the original and the translation entries
\* (text and timing) stay as they were, whatever the step is (toggle, nudge,
\* edit of either text, navigation, search, card creation, playback).
C30_EntriesKeptWhileExtended ==
    [][(extend_active \/ extend_active')
       => /\ orig_entries' = orig_entries
          /\ trans_entries' = trans_entries]_vars
\* extend was activated, the combined text was edited and extend was toggled
\* back to 0 (the edited text is still kept aside), the entries as loaded
C30_Witness ==
    /\ ~extend_active
    /\ extend_base_index # None
    /\ temp_combined_orig = Some(<<"A", "b">>)
    /\ orig_entries = Track3
\* ---------------------------------------------------------------------
\* Search in the desktop window: a three-entry track with a translation
\* for each entry, the user typing queries, pressing the search button,
\* navigating, editing the original text and toggling extend while the
\* player plays.
SearchQueries == { <<>>, <<",">>, <<"A">>, <<"b", " ">>, <<"a", "b">> }
SearchTransTrack ==
    << Entry(0, 2, <<>>), Entry(2, 4, <<"a">>), Entry(5, 6, <<"A">>) >>
InitSearch ==
    /\ Start(update_duration(Constructed(Track3), MediaLen))
    /\ NoFind
    /\ NoAlign
    /\ NoVideo
    /\ NoBounds
    /\ NoMatch
    /\ StartTrans(update_subtitle_display_trans(St, TransConstructed(SearchTransTrack)))
SearchQueryEdited(term) ==
    /\ CanAct
    /\ term # search_input
    /\ LET s2 == clear_search_state([User EXCEPT !.search_input = term])
       IN TransStep(s2, clear_search_state_sources(
                            IF extend_active THEN Refreshed(s2) ELSE TransSt))
SearchQueryEdit == \E term \in SearchQueries : SearchQueryEdited(term)

NextSearch ==
    \/ Tick
    \/ TimerFire
    \/ ExtPollTick
    \/ ExtTogglePlay
    \/ ExtForward
    \/ ExtBack
    \/ ExtToggleExtend
    \/ OriginalEdit
    \/ SearchQueryEdit
    \/ ExtSearchButton

SpecSearch == InitSearch /\ [][NextSearch]_vars

\* the indices of the entries whose original or translation text matches
\* the query typed
MatchingIndices ==
    { i \in 0..(Len(orig_entries) - 1) :
          \/ has_search_match(orig_entries[i + 1].text, Strip(search_input),
                              normalize_for_search(Strip(search_input)))
          \/ /\ i < Len(trans_entries)
             /\ has_search_match(trans_entries[i + 1].text, Strip(search_input),
                                 normalize_for_search(Strip(search_input))) }
\* the search button has jumped to the match under cursor k (0-based) of
\* the match list m and moved the cursor on
JumpedTo(m, k) ==
    /\ current_index' = m[k + 1]
    /\ player_pos' = orig_entries'[m[k + 1] + 1].start_time
    /\ search_index' = (k + 1) % Len(m)

\* C31: a press of the search button that finds n >= 1 matches leaves a
\* strictly increasing match list holding exactly the indices whose
\* original or translation text matched, each tagged with a non-empty set
\* of sources, and jumps to the first match; every later press keeps the
\* list, jumps to the match under the cursor (current_index and player
\* position) and advances the cursor modulo n, so the k-th press goes to
\* matches[(k-1) mod n]; the cursor is always in [0, n-1].
C31_SearchCycle ==
    [][/\ (ExtSearchButton /\ search_matches = <<>> /\ search_matches' # <<>>)
          => /\ \A i, j \in DOMAIN search_matches' :
                    i < j => search_matches'[i] < search_matches'[j]
             /\ { search_matches'[k] : k \in DOMAIN search_matches' } = MatchingIndices
             /\ DOMAIN search_match_sources' = MatchingIndices
             /\ \A i \in MatchingIndices :
                    /\ search_match_sources'[i] # {}
                    /\ search_match_sources'[i] \subseteq {"orig", "trans"}
             /\ JumpedTo(search_matches', 0)
       /\ (ExtSearchButton /\ search_matches # <<>>)
          => /\ search_matches' = search_matches
             /\ JumpedTo(search_matches, search_index)
       /\ search_matches' # <<>>
          => search_index' \in 0..(Len(search_matches') - 1)]_vars
\* the third press of a search with three matches has gone to the last of
\* them and the cursor has wrapped to 0; the matches are tagged orig, both
\* and trans
C31_Witness ==
    /\ search_matches = << 0, 1, 2 >>
    /\ search_index = 0
    /\ current_index = 2
    /\ player_pos = 5
    /\ search_match_sources =
           [j \in {0, 1, 2} |-> IF j = 0 THEN {"orig"}
                                ELSE IF j = 1 THEN {"orig", "trans"} ELSE {"trans"}]
\* ---------------------------------------------------------------------
\* _has_search_match on its own: texts and queries over a word character
\* in lower case, one in upper case, a punctuation mark and a space.
MaxTextLen == 3
MaxTermLen == 2
MatchChars == {"a", "B", ",", " "}
MatchTexts == UNION { [1..n -> MatchChars] : n \in 0..MaxTextLen }
MatchTerms == UNION { [1..n -> MatchChars \cup {"A"}] : n \in 1..MaxTermLen }
InitMatch ==
    /\ Start(Constructed(<<>>))
    /\ NoFind
    /\ NoAlign
    /\ NoVideo
    /\ NoBounds
    /\ NoTrans
    /\ match_text \in MatchTexts
    /\ match_term = <<"a">>
    /\ match_found = has_search_match(match_text, <<"a">>, normalize_for_search(<<"a">>))
\* one call: self._has_search_match(text, term, norm_term), the norm_term
\* being self._normalize_for_search(term) as in run_search
MatchCall ==
    /\ \E term \in MatchTerms :
           /\ term # match_term
           /\ match_term' = term
           /\ match_found' = has_search_match(match_text, term, normalize_for_search(term))
    /\ UNCHANGED << match_text, find_vars, align_vars, video_vars, bounds_vars,
                    trans_vars >>
    /\ Assign(St)

NextMatch == MatchCall

SpecMatch == InitMatch /\ [][NextMatch]_vars

\* the query is a substring of the text, case ignored
IsSubstringNoCase(term, text) ==
    \E i \in 1..Len(text) :
        /\ i + Len(term) - 1 <= Len(text)
        /\ \A k \in 1..Len(term) : LowerChar(text[i + k - 1]) = LowerChar(term[k])
\* the maximal runs of word characters of t, as pairs of positions
WordRuns(t) ==
    { r \in (1..Len(t)) \X (1..Len(t)) :
          /\ r[1] <= r[2]
          /\ \A k \in r[1]..r[2] : IsWordChar(t[k])
          /\ r[1] = 1 \/ ~IsWordChar(t[r[1] - 1])
          /\ r[2] = Len(t) \/ ~IsWordChar(t[r[2] + 1]) }
\* the normalized query is one word, and that word is a whole word of the
\* normalized text
IsWholeToken(term, text) ==
    \E r \in WordRuns(term) :
        /\ WordRuns(term) = {r}
        /\ \E q \in WordRuns(text) :
               Lower(SubSeq(text, q[1], q[2])) = Lower(SubSeq(term, r[1], r[2]))

\* C32: a text matches a query exactly when the query is a case-insensitive
\* substring of the text or the normalized query is one whole token of the
\* normalized text; an empty (or missing) text never matches.
C32_MatchIff ==
    /\ match_found <=> (\/ IsSubstringNoCase(match_term, match_text)
                        \/ IsWholeToken(match_term, match_text))
    /\ match_text = <<>> => ~match_found
\* a match by the token only: the query with its punctuation is not a
\* substring of the text
C32_Witness ==
    /\ match_found
    /\ match_text = <<"B", ",", "a">>
    /\ match_term = <<"a", ",">>
    /\ ~IsSubstringNoCase(match_term, match_text)
\* ---------------------------------------------------------------------
\* C33: the extend count is at most min(2, entries after the base), extend
\* is active exactly when the count is 1 or 2, a toggle with exactly one
\* entry after the base entry alternates between count 1 and count 0, and
\* a toggle with no entry after the base entry leaves extend inactive.
C33_ExtendCap ==
    [][/\ (extend_active' /\ extend_base_index' # None)
          => extend_count' <= Min2(MAX_EXTEND,
                                   Len(orig_entries') - 1 - Val(extend_base_index'))
       /\ extend_active' <=> extend_count' \in {1, 2}
       /\ (ToggleExtend /\ orig_entries # <<>> /\ BaseEntry + 1 = LastIndex)
          => /\ ~raised'
             /\ (~extend_active) => (extend_active' /\ extend_count' = 1)
             /\ extend_active => ((~extend_active') /\ extend_count' = 0)
       /\ (ToggleExtend /\ orig_entries # <<>> /\ BaseEntry = LastIndex)
          => ~extend_active']_vars
\* no two entries of the track overlap, and each has a length
NonOverlapping ==
    /\ \A i \in 1..Len(orig_entries) :
           orig_entries[i].start_time < orig_entries[i].end_time
    /\ \A i \in 1..(Len(orig_entries) - 1) :
           orig_entries[i].end_time <= orig_entries[i + 1].start_time
\* the adjusted selection is the current entry's own span
NotNudged ==
    /\ InRange(orig_entries, current_index)
    /\ adj_start = At(orig_entries, current_index).start_time
    /\ adj_end = At(orig_entries, current_index).end_time

\* C34: the toggle that activates extend sets base_index to the index
\* resolved from the adjusted start it finds (find_subtitle_index of
\* adj_start + 1e-6); a toggle that leaves extend active keeps base_index;
\* and on a non-overlapping track with the selection not nudged the base
\* is current_index.
C34_BaseAnchored ==
    [][/\ (ToggleExtend /\ (~extend_active) /\ extend_active')
          => /\ extend_base_index' =
                    Some(find_subtitle_index(orig_entries, Sec(adj_start) + EPS))
             /\ (NonOverlapping /\ NotNudged)
                => extend_base_index' = Some(current_index)
       /\ (ToggleExtend /\ extend_active /\ extend_active')
          => extend_base_index' = extend_base_index]_vars
\* extend was activated on entry 0 and toggled once more: the count is 2
\* going up, the base is still entry 0
C34_Witness ==
    /\ extend_active
    /\ extend_base_index = Some(0)
    /\ extend_count = 2
    /\ extend_direction = 1
    /\ orig_entries = Track3
\* ---------------------------------------------------------------------
\* A track whose last entry ends after the end of the media, in the
\* desktop window: the user toggles extend, nudges, navigates and plays.
TrackPastEnd ==
    << Entry(0, 2, <<"a">>), Entry(2, 4, <<"b">>), Entry(5, MediaLen + 1, <<"b">>) >>
InitPastEnd ==
    /\ Start(update_duration(Constructed(TrackPastEnd), MediaLen))
    /\ NoFind
    /\ NoAlign
    /\ NoVideo
    /\ NoBounds
    /\ NoMatch
    /\ NoTrans
NextPastEnd ==
    \/ Tick
    \/ PollTick
    \/ TimerFire
    \/ TogglePlay
    \/ ForwardOrPause
    \/ BackToPrevious
    \/ NudgeSegment
    \/ ToggleExtend

SpecPastEnd == InitPastEnd /\ [][NextPastEnd]_vars

\* after a toggle that leaves extend active: end_index = base_index +
\* count is an index of the track and the locked range runs from the start
\* of the base entry to the end of the end entry
RangeLocked ==
    /\ ~raised'
    /\ extend_base_index' # None
    /\ extend_end_index' = Some(Val(extend_base_index') + extend_count')
    /\ Val(extend_end_index') <= Len(orig_entries') - 1
    /\ extend_sel_start' = Some(orig_entries'[Val(extend_base_index') + 1].start_time)
    /\ extend_sel_end' = Some(orig_entries'[Val(extend_end_index') + 1].end_time)
\* ... and the preview of the adjusted selection is running
PreviewRunning ==
    /\ playing'
    /\ player_pos' = adj_start'
    /\ is_adjusted_preview'
    /\ timer_active'
    /\ timer_deadline' = adj_end'
    /\ timer_remaining' = adj_end' - adj_start'

C37_PreviewHasTimer ==
    is_adjusted_preview => timer_active

\* ---------------------------------------------------------------------
\* a navigation of the desktop window: forward (the button while paused),
\* back, a release of the slider, a search jump or a toggle of extend
Navigated ==
    \/ ForwardOrPause /\ ~playing
    \/ BackToPrevious
    \/ SliderReleased
    \/ SearchButton /\ search_matches' # <<>>
    \/ ToggleExtend
\* toggle_play takes its resume branch, and moves current_index to the
\* stored index, exactly when waiting_for_resume is set and pending_index
\* is not None
ResumePending ==
    waiting_for_resume /\ pending_index # None /\ Val(pending_index) # current_index
\* C38: a navigation leaves no resume pending for an index other than the
\* current one, so that the next play command starts at the then-current
\* segment and does not move current_index to the index stored by the
\* auto-pause before the navigation.
C38_NavigationDropsResume ==
    [][(Navigated /\ ~raised') => ~ResumePending']_vars

\* ---------------------------------------------------------------------
\* C39: the text in the editor of the original was loaded from the current
\* entry whenever save_current_edits writes it into entries[current_index]:
\* while the user types nothing into that editor, no step other than the
\* replacement of the track changes the text of an entry.
C39_EntriesKeepTheirText ==
    [][(surface = "desktop" /\ ~CaptionSelected) => orig_entries' = orig_entries]_vars

\* ---------------------------------------------------------------------
\* C40: in the mobile window the armed flag implies the enabled flag in
\* every reachable state; a position update during playback pauses the
\* player before the end of the media only when auto-pause is enabled and
\* armed and the new position is at or after the end of the selection, and
\* the same step clears the armed flag, so that a second automatic pause
\* needs a new arming.
C40_MobileAutoPause ==
    /\ [](surface = "mobile" => (auto_pause_armed => auto_pause_enabled))
    /\ [][(MobileTick /\ ~playing' /\ player_pos' < MediaLen)
          => /\ auto_pause_enabled
             /\ auto_pause_armed
             /\ adj_end > 0
             /\ player_pos' >= adj_end
             /\ ~auto_pause_armed'
             /\ auto_pause_enabled']_vars
\* the player has been paused at the end of the first entry of three by
\* the auto-pause, which is enabled and no longer armed
C40_Witness ==
    /\ surface = "mobile"
    /\ orig_entries = Track3
    /\ current_index = 0
    /\ auto_pause_enabled
    /\ ~auto_pause_armed
    /\ ~playing
    /\ adj_end = Track3[1].end_time
    /\ player_pos = adj_end
====
